---------------------------- MODULE Spec2Model ----------------------------
(***************************************************************************)
(* A model of the rrvm virtual machine: the bytecode dispatch loop of      *)
(* src/vm/vm.h (run_vm) driving the typed interpreter backend of           *)
(* src/backend/interpreter/interpreter.h.                                  *)
(*                                                                         *)
(* The machine state is one record, vm, with the fields of the C struct VM *)
(* (plus the run's status and its standard output).  Every hook is an      *)
(* operator from a VM record to the VM record (or, where the C code has    *)
(* more than one possible outcome, to the set of VM records) it leaves.    *)
(*                                                                         *)
(* Numbers.  TLC's integers are 32-bit, so the 64-bit machine word is      *)
(* modelled on its sub-range INT_MIN..INT_MAX: every word of a program and *)
(* every value the modelled runs compute lies in it (an arithmetic result  *)
(* that would leave it disables the step).  `int` fields (sp, tp, fp, ...) *)
(* are exact 32-bit ints.  size_t values are kept as the signed reading of *)
(* their bit pattern and compared with ULess.                              *)
(***************************************************************************)
EXTENDS Integers, Sequences, FiniteSets, TLC

(***************************************************************************)
(* Configuration (src/vm/vm.h).                                            *)
(***************************************************************************)
STACK_SIZE == 1024
TAPE_SIZE == 1024
CALL_STACK_SIZE == 256
BLOCK_STACK_SIZE == 256
FUNCTIONS_SIZE == 256
INT_MAX == 2147483647
INT_MIN == (-INT_MAX) - 1

(* TypeTag *)
TYPE_UNKNOWN == 0
TYPE_I8 == 1
TYPE_U8 == 2
TYPE_I16 == 3
TYPE_U16 == 4
TYPE_I32 == 5
TYPE_U32 == 6
TYPE_I64 == 7
TYPE_U64 == 8
TYPE_F32 == 9
TYPE_F64 == 10
TYPE_BOOL == 11
TYPE_PTR == 12
TYPE_VOID == 13

(* OpCode *)
OP_NOP == 0
OP_PUSH == 1
OP_ADD == 2
OP_SUB == 3
OP_MUL == 4
OP_DIV == 5
OP_REM == 6
OP_MOVE == 7
OP_LOAD == 8
OP_STORE == 9
OP_PRINT == 10
OP_DEREF == 11
OP_REFER == 12
OP_WHERE == 13
OP_OFFSET == 14
OP_INDEX == 15
OP_SET == 16
OP_FUNCTION == 17
OP_CALL == 18
OP_RETURN == 19
OP_WHILE == 20
OP_IF == 21
OP_ELSE == 22
OP_ENDBLOCK == 23
OP_ORASSign == 24
OP_ANDASSign == 25
OP_NOT == 26
OP_BITAND == 27
OP_BITOR == 28
OP_BITXOR == 29
OP_LSH == 30
OP_LRSH == 31
OP_ARSH == 32
OP_GEZ == 33
OP_HALT == 34

(***************************************************************************)
(* Machine arithmetic.                                                     *)
(***************************************************************************)
\* a < b for two size_t values given as the signed reading of their bits
ULess(a, b) == IF (a >= 0) = (b >= 0) THEN a < b ELSE b < 0

\* whether the exact sum a + b of two 32-bit ints is a 32-bit int
AddFits(a, b) ==
    IF b >= 0 THEN a <= INT_MAX - b ELSE a >= INT_MIN - b

\* (int)(a + b) for 32-bit a, b: the sum reduced modulo 2^32 (the conversion
\* gcc and clang document for an out-of-range value), computed without leaving
\* the 32-bit range
WrapAdd(a, b) ==
    IF AddFits(a, b) THEN a + b
    ELSE IF b >= 0 THEN ((a - INT_MAX) - 1) + ((b - INT_MAX) - 1)
    ELSE ((a + INT_MAX) + 1) + ((b + INT_MAX) + 1)

\* whether the exact value x is a word of the modelled sub-range
IsWord(x) == x >= INT_MIN /\ x <= INT_MAX

RECURSIVE Pow2(_)
Pow2(n) == IF n <= 0 THEN 1 ELSE 2 * Pow2(n - 1)

\* whether the exact difference a - b of two 32-bit ints is a 32-bit int
SubFits(a, b) ==
    IF b >= 0 THEN a >= INT_MIN + b ELSE a <= INT_MAX + b

\* a / b truncated toward zero for b > 0, from the floor that \div gives
TruncDiv(a, b) ==
    IF a >= 0 \/ a % b = 0 THEN a \div b ELSE (a \div b) + 1

\* C's a / b and a % b (truncation toward zero) for b # 0 and a quotient
\* that is a 32-bit int (all but INT_MIN / -1)
CDiv(a, b) ==
    IF b > 0 THEN TruncDiv(a, b)
    ELSE IF b = INT_MIN THEN (IF a = INT_MIN THEN 1 ELSE 0)
    ELSE -TruncDiv(a, -b)
CRem(a, b) ==
    IF b = INT_MIN THEN (IF a = INT_MIN THEN 0 ELSE a)
    ELSE IF b = -1 THEN 0
    ELSE a - CDiv(a, b) * b

\* the magnitude of a 32-bit int other than INT_MIN
Abs(a) == IF a >= 0 THEN a ELSE -a

\* whether the exact product a * b of two 32-bit ints is a 32-bit int
MulFits(a, b) ==
    IF a = 0 \/ b = 0 THEN TRUE
    ELSE IF a = INT_MIN THEN b = 1
    ELSE IF b = INT_MIN THEN a = 1
    ELSE \/ Abs(a) <= INT_MAX \div Abs(b)
         \/ /\ (a > 0) # (b > 0)
            /\ 1073741824 % Abs(b) = 0
            /\ Abs(a) = 2 * (1073741824 \div Abs(b))
\* the product of two 32-bit ints whose product is one, formed without
\* leaving the 32-bit range
Product(a, b) ==
    IF a = 0 \/ b = 0 THEN 0
    ELSE IF a = INT_MIN \/ b = INT_MIN THEN INT_MIN
    ELSE IF Abs(a) <= INT_MAX \div Abs(b) THEN a * b
    ELSE INT_MIN


\* bitwise operators on non-negative operands
RECURSIVE BitAndNat(_, _)
BitAndNat(a, b) ==
    IF a = 0 \/ b = 0 THEN 0
    ELSE (IF a % 2 = 1 /\ b % 2 = 1 THEN 1 ELSE 0) + 2 * BitAndNat(a \div 2, b \div 2)
RECURSIVE BitOrNat(_, _)
BitOrNat(a, b) ==
    IF a = 0 THEN b ELSE IF b = 0 THEN a
    ELSE (IF a % 2 = 1 \/ b % 2 = 1 THEN 1 ELSE 0) + 2 * BitOrNat(a \div 2, b \div 2)
RECURSIVE BitXorNat(_, _)
BitXorNat(a, b) ==
    IF a = 0 THEN b ELSE IF b = 0 THEN a
    ELSE (IF (a % 2) # (b % 2) THEN 1 ELSE 0) + 2 * BitXorNat(a \div 2, b \div 2)

\* two's complement: ~x = -x - 1
BitNot(x) == IF x >= 0 THEN (-x) - 1 ELSE -(x + 1)

(***************************************************************************)
(* The interpreter's binary functions (interpreter.h).  Each gives         *)
(* [kind, val]: "val" a result, "abort" a failed assert, "ub" undefined    *)
(* behaviour of the C expression, "beyond" a result outside the modelled   *)
(* word sub-range.                                                         *)
(***************************************************************************)
Val(x) == IF IsWord(x) THEN [kind |-> "val", val |-> x] ELSE [kind |-> "beyond", val |-> 0]
NoVal(k) == [kind |-> k, val |-> 0]

add_fn(a, b) == IF AddFits(a, b) THEN Val(a + b) ELSE NoVal("beyond")
sub_fn(a, b) == IF SubFits(a, b) THEN Val(a - b) ELSE NoVal("beyond")
\* operands whose product cannot leave the 16-bit reach of the claims
MulSmall(a) == a >= -32768 /\ a <= 32767
mul_fn(a, b) == IF MulFits(a, b) THEN Val(Product(a, b)) ELSE NoVal("beyond")
\* the words are 64 bits wide: INT_MIN / -1 is 2^31, outside the sub-range
div_fn(a, b) == IF b = 0 THEN NoVal("abort")
                ELSE IF a = INT_MIN /\ b = -1 THEN NoVal("beyond")
                ELSE Val(CDiv(a, b))
\* rem_impl on the magnitudes of its operands
rem_impl_magnitude(a, b) ==
    IF b = 0 THEN NoVal("abort")
    ELSE IF a = INT_MIN \/ b = INT_MIN THEN NoVal("beyond")
    ELSE Val(Abs(a) % Abs(b))
\* rem_impl without the assert on the divisor
rem_impl_unchecked(a, b) ==
    IF b = 0 THEN Val(a)
    ELSE Val(CRem(a, b))
rem_impl(a, b) == IF b = 0 THEN NoVal("abort")
                  ELSE Val(CRem(a, b))
or_impl(a, b) == Val(IF a # 0 \/ b # 0 THEN 1 ELSE 0)
and_impl(a, b) == Val(IF a # 0 /\ b # 0 THEN 1 ELSE 0)
bitand_impl(a, b) ==
    Val(IF a >= 0 /\ b >= 0 THEN BitAndNat(a, b)
        ELSE IF a >= 0 THEN a - BitAndNat(a, BitNot(b))
        ELSE IF b >= 0 THEN b - BitAndNat(b, BitNot(a))
        ELSE BitNot(BitOrNat(BitNot(a), BitNot(b))))
bitor_impl(a, b) ==
    Val(IF a >= 0 /\ b >= 0 THEN BitOrNat(a, b)
        ELSE IF a >= 0 THEN BitNot(BitNot(b) - BitAndNat(BitNot(b), a))
        ELSE IF b >= 0 THEN BitNot(BitNot(a) - BitAndNat(BitNot(a), b))
        ELSE BitNot(BitAndNat(BitNot(a), BitNot(b))))
bitxor_impl(a, b) ==
    Val(IF a >= 0 /\ b >= 0 THEN BitXorNat(a, b)
        ELSE IF a >= 0 THEN BitNot(BitXorNat(a, BitNot(b)))
        ELSE IF b >= 0 THEN BitNot(BitXorNat(BitNot(a), b))
        ELSE BitXorNat(BitNot(a), BitNot(b)))
\* a shift by a count outside 0..63 is undefined; so is a left shift of a
\* negative value, and one whose result a * 2^b does not fit the signed
\* 64-bit word (a >= 2^(63-b))
lsh_impl(a, b) ==
    IF b < 0 \/ b > 63 \/ a < 0 THEN NoVal("ub")
    ELSE IF a = 0 THEN Val(0)
    ELSE IF b > 32 /\ a >= Pow2(63 - b) THEN NoVal("ub")
    ELSE IF b > 30 THEN NoVal("beyond")
    ELSE IF a <= INT_MAX \div Pow2(b) THEN Val(a * Pow2(b)) ELSE NoVal("beyond")
\* floor(a / 2^b) for 0 <= b <= 30
FloorShift(a, b) == a \div Pow2(b)
\* (word)((uint64_t)a >> b): for a < 0 the unsigned reading is 2^64 + a, so
\* the result is a itself for b = 0, 2^(64-b) + floor(a / 2^b) >= 2^31 for
\* b in 1..32, and 2^(64-b) - 1 from b = 33 on
lrsh_impl(a, b) ==
    IF b < 0 \/ b > 63 THEN NoVal("ub")
    ELSE IF a >= 0 THEN (IF b > 30 THEN Val(0) ELSE Val(a \div Pow2(b)))
    ELSE IF b = 0 THEN Val(a)
    ELSE IF b < 33 THEN NoVal("beyond")
    ELSE Val(((Pow2(63 - b) - 1) * 2) + 1)
\* a >> b on a signed word: an arithmetic shift (gcc, clang)
arsh_impl(a, b) ==
    IF b < 0 \/ b > 63 THEN NoVal("ub")
    ELSE IF b > 30 THEN Val(IF a >= 0 THEN 0 ELSE -1)
    ELSE Val(FloorShift(a, b))

(***************************************************************************)
(* VM helpers (src/vm/vm.h).  A failed assert, and exit(1), end the run:   *)
(* status "aborted".                                                       *)
(***************************************************************************)
Aborted(v) == [v EXCEPT !.status = "aborted"]

InTape(tp) == tp >= 0 /\ tp < TAPE_SIZE

vm_push(v, imm) ==
    IF ~(v.sp < STACK_SIZE) THEN Aborted(v)
    ELSE [v EXCEPT !.stack[v.sp] = imm, !.sp = v.sp + 1]

\* the VM after vm_pop; the popped value is v.stack[v.sp - 1]
vm_pop(v) ==
    IF ~(v.sp > 0) THEN Aborted(v)
    ELSE [v EXCEPT !.sp = v.sp - 1]

vm_push_tp(v, tp_val) ==
    IF ~(v.tp_sp < TAPE_SIZE) THEN Aborted(v)
    ELSE [v EXCEPT !.tp_stack[v.tp_sp] = tp_val, !.tp_sp = v.tp_sp + 1]

\* the VM after vm_pop_tp; the popped value is v.tp_stack[v.tp_sp - 1]
vm_pop_tp(v) ==
    IF ~(v.tp_sp > 0) THEN Aborted(v)
    ELSE [v EXCEPT !.tp_sp = v.tp_sp - 1]

(***************************************************************************)
(* Accesses to tape[tp] with tp outside 0..TAPE_SIZE-1 are undefined       *)
(* behaviour.  The run is not followed past one: its status becomes        *)
(* "undefined".  A read leaves the VM's fields as they are.  A write lands *)
(* in whatever lies at that address: nowhere the VM sees, or in the fields *)
(* of struct VM around the tape.  The offsets are those of the x86-64      *)
(* layout with 64-bit words: a word, a size_t and a pointer take 8 bytes,  *)
(* an int and an enum 4, and 8-byte members are aligned to 8.              *)
(***************************************************************************)
OFF_stack == 24
OFF_sp == OFF_stack + 8 * STACK_SIZE
OFF_types == OFF_sp + 4
OFF_tape == OFF_types + 4 * STACK_SIZE + 4
OFF_tape_types == OFF_tape + 8 * TAPE_SIZE
OFF_tp == OFF_tape_types + 4 * TAPE_SIZE
OFF_tp_stack == OFF_tp + 4
OFF_tp_sp == OFF_tp_stack + 4 * TAPE_SIZE
OFF_functions == OFF_tp_sp + 4
OFF_functions_count == OFF_functions + 8 * FUNCTIONS_SIZE
OFF_call_stack == OFF_functions_count + 8
OFF_call_sp == OFF_call_stack + 16 * CALL_STACK_SIZE
OFF_fp == OFF_call_sp + 4
OFF_block_stack == OFF_fp + 4
OFF_block_sp == OFF_block_stack + 16 * BLOCK_STACK_SIZE
SIZEOF_VM == OFF_block_sp + 16

OobRead(v) == [v EXCEPT !.status = "undefined"]

\* a value has left the modelled word sub-range
Beyond(v) == [v EXCEPT !.status = "beyond"]

\* whether an 8-byte member holding c (sign-extended) still holds a value
\* of the sub-range once its low (hi = FALSE) or high half is x; the low
\* half of the result is then x, the high half leaves c as it is
HalfFits(c, hi, x) ==
    IF hi THEN (x = 0 /\ c >= 0) \/ (x = -1 /\ c < 0)
    ELSE (x >= 0) = (c >= 0)
HalfSet(c, hi, x) == IF hi THEN c ELSE x

\* the VM after the 4 bytes at offset off (a multiple of 4) of struct VM
\* have been set to x
Poke32(v, off, x) ==
    LET hi == off % 8 = 4
    IN  IF off < 8 \/ off >= SIZEOF_VM THEN v
        ELSE IF off < 16
        THEN IF HalfFits(v.code_len, hi, x)
             THEN [v EXCEPT !.code_len = HalfSet(@, hi, x)] ELSE Beyond(v)
        ELSE IF off < OFF_stack
        THEN IF HalfFits(v.ip, hi, x)
             THEN [v EXCEPT !.ip = HalfSet(@, hi, x)] ELSE Beyond(v)
        ELSE IF off < OFF_sp
        THEN LET i == (off - OFF_stack) \div 8
             IN  IF HalfFits(v.stack[i], hi, x)
                 THEN [v EXCEPT !.stack[i] = HalfSet(@, hi, x)] ELSE Beyond(v)
        ELSE IF off = OFF_sp THEN [v EXCEPT !.sp = x]
        ELSE IF off < OFF_types + 4 * STACK_SIZE
        THEN [v EXCEPT !.types[(off - OFF_types) \div 4] = x]
        ELSE IF off < OFF_tape THEN v
        ELSE IF off < OFF_tape_types
        THEN LET i == (off - OFF_tape) \div 8
             IN  IF HalfFits(v.tape[i], hi, x)
                 THEN [v EXCEPT !.tape[i] = HalfSet(@, hi, x)] ELSE Beyond(v)
        ELSE IF off < OFF_tp
        THEN [v EXCEPT !.tape_types[(off - OFF_tape_types) \div 4] = x]
        ELSE IF off = OFF_tp THEN [v EXCEPT !.tp = x]
        ELSE IF off < OFF_tp_sp
        THEN [v EXCEPT !.tp_stack[(off - OFF_tp_stack) \div 4] = x]
        ELSE IF off = OFF_tp_sp THEN [v EXCEPT !.tp_sp = x]
        ELSE IF off < OFF_functions_count
        THEN LET i == (off - OFF_functions) \div 8
             IN  IF HalfFits(v.functions[i], hi, x)
                 THEN [v EXCEPT !.functions[i] = HalfSet(@, hi, x)] ELSE Beyond(v)
        ELSE IF off < OFF_call_stack
        THEN IF HalfFits(v.functions_count, hi, x)
             THEN [v EXCEPT !.functions_count = HalfSet(@, hi, x)] ELSE Beyond(v)
        ELSE IF off < OFF_call_sp
        THEN LET i == (off - OFF_call_stack) \div 16
                 at == (off - OFF_call_stack) % 16
             IN  IF at = 8 THEN [v EXCEPT !.call_stack[i].old_fp = x]
                 ELSE IF at = 12 THEN v
                 ELSE IF HalfFits(v.call_stack[i].return_ip, hi, x)
                 THEN [v EXCEPT !.call_stack[i].return_ip = HalfSet(@, hi, x)]
                 ELSE Beyond(v)
        ELSE IF off = OFF_call_sp THEN [v EXCEPT !.call_sp = x]
        ELSE IF off = OFF_fp THEN [v EXCEPT !.fp = x]
        ELSE IF off < OFF_block_sp
        THEN LET i == (off - OFF_block_stack) \div 16
                 at == (off - OFF_block_stack) % 16
             IN  IF at = 0 THEN [v EXCEPT !.block_stack[i].type = x]
                 ELSE IF at = 4 THEN v
                 ELSE IF HalfFits(v.block_stack[i].ip, hi, x)
                 THEN [v EXCEPT !.block_stack[i].ip = HalfSet(@, hi, x)]
                 ELSE Beyond(v)
        ELSE IF off = OFF_block_sp THEN [v EXCEPT !.block_sp = x]
        ELSE v

\* the VM after the 8 bytes at offset off (a multiple of 8) have been set to
\* the word val: an 8-byte member takes val, two 4-byte ones its halves
Poke64(v, off, val) ==
    LET i8(base) == (off - base) \div 8
    IN  IF off >= 8 /\ off < 16 THEN [v EXCEPT !.code_len = val]
        ELSE IF off >= 16 /\ off < OFF_stack THEN [v EXCEPT !.ip = val]
        ELSE IF off >= OFF_stack /\ off < OFF_sp THEN [v EXCEPT !.stack[i8(OFF_stack)] = val]
        ELSE IF off >= OFF_tape /\ off < OFF_tape_types
        THEN [v EXCEPT !.tape[i8(OFF_tape)] = val]
        ELSE IF off >= OFF_functions /\ off < OFF_functions_count
        THEN [v EXCEPT !.functions[i8(OFF_functions)] = val]
        ELSE IF off >= OFF_functions_count /\ off < OFF_call_stack
        THEN [v EXCEPT !.functions_count = val]
        ELSE IF off >= OFF_call_stack /\ off < OFF_call_sp /\ (off - OFF_call_stack) % 16 = 0
        THEN [v EXCEPT !.call_stack[(off - OFF_call_stack) \div 16].return_ip = val]
        ELSE IF off >= OFF_block_stack /\ off < OFF_block_sp /\ (off - OFF_block_stack) % 16 = 8
        THEN [v EXCEPT !.block_stack[(off - OFF_block_stack) \div 16].ip = val]
        ELSE Poke32(Poke32(v, off, val), off + 4, IF val >= 0 THEN 0 ELSE -1)

\* vm->tape[tp] = val and vm->tape_types[tp] = t for a tp outside the tape:
\* inside struct VM the write lands in the member at that offset, outside
\* it in nothing the VM sees
PokeTape(v, tp, val) ==
    IF tp >= -(OFF_tape \div 8) /\ tp < (SIZEOF_VM - OFF_tape) \div 8
    THEN Poke64(v, OFF_tape + 8 * tp, val) ELSE v
PokeTapeType(v, tp, t) ==
    IF tp >= -(OFF_tape_types \div 4) /\ tp < (SIZEOF_VM - OFF_tape_types) \div 4
    THEN Poke32(v, OFF_tape_types + 4 * tp, t) ELSE v

\* the outcomes of the two writes of Store and Set with tp outside the tape:
\* none that the VM sees, or those of this layout, with tp read once for
\* both writes or read again for the second
OobWrite(v, val, t) ==
    LET u == [v EXCEPT !.status = "undefined"]
        w == PokeTape(u, v.tp, val)
    IN  {u, PokeTapeType(w, v.tp, t), PokeTapeType(w, w.tp, t)}
\* the same for the write of the word alone
OobWriteWord(v, val) ==
    LET u == [v EXCEPT !.status = "undefined"]
    IN  {u, PokeTape(u, v.tp, val)}

(***************************************************************************)
(* The interpreter's hooks (src/backend/interpreter/interpreter.h).  Each  *)
(* takes the VM as the dispatch loop hands it over (ip past the opcode and *)
(* its immediates).                                                        *)
(***************************************************************************)
interp_push(v, type, imm) ==
    LET v1 == vm_push(v, imm)
    IN  IF v1.status # "running" THEN v1
        ELSE [v1 EXCEPT !.types[v1.sp - 1] = type]

\* vm->tp >= step compares as size_t: a negative tp reads as a huge value
interp_move(v, imm) ==
    IF imm < 0
    THEN IF v.tp >= 0 /\ v.tp + imm < 0 THEN Aborted(v)
         ELSE [v EXCEPT !.tp = WrapAdd(v.tp, imm)]
    ELSE LET t == WrapAdd(v.tp, imm)
         IN  IF ~(t < TAPE_SIZE) THEN Aborted([v EXCEPT !.tp = t])
             ELSE [v EXCEPT !.tp = t]

interp_load(v) ==
    IF ~InTape(v.tp) THEN OobRead(v)
    ELSE LET v1 == vm_push(v, v.tape[v.tp])
         IN  IF v1.status # "running" THEN v1
             ELSE [v1 EXCEPT !.types[v1.sp - 1] = v.tape_types[v.tp]]

\* a Store that writes the value and leaves the cell's tag as it was
interp_store_untagged(v) ==
    IF ~(v.sp > 0) THEN {Aborted(v)}
    ELSE LET val == v.stack[v.sp - 1]
             v1 == vm_pop(v)
         IN  IF ~InTape(v.tp) THEN OobWriteWord(v1, val)
             ELSE {[v1 EXCEPT !.tape[v.tp] = val]}

interp_store(v) ==
    IF ~(v.sp > 0) THEN {Aborted(v)}
    ELSE LET t == v.types[v.sp - 1]
             val == v.stack[v.sp - 1]
             v1 == vm_pop(v)
         IN  IF ~InTape(v.tp) THEN OobWrite(v1, val, t)
             ELSE {[v1 EXCEPT !.tape[v.tp] = val, !.tape_types[v.tp] = t]}

interp_set(v, type, imm) ==
    IF ~InTape(v.tp) THEN OobWrite(v, imm, type)
    ELSE {[v EXCEPT !.tape[v.tp] = imm, !.tape_types[v.tp] = type]}

\* a call through the function pointer fn, named by the C function it points to
CallFn(fn, a, b) ==
    CASE fn = "add_fn" -> add_fn(a, b)
      [] fn = "sub_fn" -> sub_fn(a, b)
      [] fn = "mul_fn" -> mul_fn(a, b)
      [] fn = "div_fn" -> div_fn(a, b)
      [] fn = "rem_impl" -> rem_impl(a, b)
      [] fn = "or_impl" -> or_impl(a, b)
      [] fn = "and_impl" -> and_impl(a, b)
      [] fn = "bitand_impl" -> bitand_impl(a, b)
      [] fn = "bitor_impl" -> bitor_impl(a, b)
      [] fn = "bitxor_impl" -> bitxor_impl(a, b)
      [] fn = "lsh_impl" -> lsh_impl(a, b)
      [] fn = "lrsh_impl" -> lrsh_impl(a, b)
      [] fn = "arsh_impl" -> arsh_impl(a, b)

\* interp_binary without the assert on the two tags
interp_binary_untyped(v, fn) ==
    IF ~(v.sp >= 2) THEN Aborted(v)
    ELSE LET r == CallFn(fn, v.stack[v.sp - 2], v.stack[v.sp - 1])
             v2 == [v EXCEPT !.sp = v.sp - 2]
         IN  IF r.kind = "abort" THEN Aborted(v2)
             ELSE IF r.kind = "ub" THEN [v2 EXCEPT !.status = "undefined"]
             ELSE IF r.kind = "beyond" THEN [v2 EXCEPT !.status = "beyond"]
             ELSE LET v3 == vm_push(v2, r.val)
                  IN  [v3 EXCEPT !.types[v3.sp - 1] = v.types[v.sp - 1]]

\* interp_binary with the operands handed to fn in the other order
interp_binary_swapped(v, fn) ==
    IF ~(v.sp >= 2) THEN Aborted(v)
    ELSE LET top == v.types[v.sp - 1]
             next == v.types[v.sp - 2]
         IN  IF top # next THEN Aborted(v)
             ELSE LET r == CallFn(fn, v.stack[v.sp - 1], v.stack[v.sp - 2])
                      v2 == [v EXCEPT !.sp = v.sp - 2]
                  IN  IF r.kind = "abort" THEN Aborted(v2)
                      ELSE IF r.kind = "ub" THEN [v2 EXCEPT !.status = "undefined"]
                      ELSE IF r.kind = "beyond" THEN [v2 EXCEPT !.status = "beyond"]
                      ELSE LET v3 == vm_push(v2, r.val)
                           IN  [v3 EXCEPT !.types[v3.sp - 1] = top]

\* fn(b, a) with a the top and b the next entry
interp_binary(v, fn) ==
    IF ~(v.sp >= 2) THEN Aborted(v)
    ELSE LET top == v.types[v.sp - 1]
             next == v.types[v.sp - 2]
         IN  IF top # next THEN Aborted(v)
             ELSE LET a == v.stack[v.sp - 1]
                      b == v.stack[v.sp - 2]
                      r == CallFn(fn, b, a)
                      v2 == [v EXCEPT !.sp = v.sp - 2]
                  IN  IF r.kind = "abort" THEN Aborted(v2)
                      ELSE IF r.kind = "ub" THEN [v2 EXCEPT !.status = "undefined"]
                      ELSE IF r.kind = "beyond" THEN [v2 EXCEPT !.status = "beyond"]
                      ELSE LET v3 == vm_push(v2, r.val)
                           IN  [v3 EXCEPT !.types[v3.sp - 1] = top]

interp_add(v) == interp_binary(v, "add_fn")
interp_sub(v) == interp_binary(v, "sub_fn")
interp_mul(v) == interp_binary(v, "mul_fn")
interp_div(v) == interp_binary(v, "div_fn")
interp_rem(v) == interp_binary(v, "rem_impl")
interp_orassign(v) == interp_binary(v, "or_impl")
interp_andassign(v) == interp_binary(v, "and_impl")
interp_bitand(v) == interp_binary(v, "bitand_impl")
interp_bitor(v) == interp_binary(v, "bitor_impl")
interp_bitxor(v) == interp_binary(v, "bitxor_impl")
interp_lsh(v) == interp_binary(v, "lsh_impl")
interp_lrsh(v) == interp_binary(v, "lrsh_impl")
interp_arsh(v) == interp_binary(v, "arsh_impl")

\* what printf writes: the conversion chosen by the tag, applied to the bits
\* of the value ("f32": the float in the low 32 bits, "f64": the double,
\* "u": the unsigned decimal, "d": the signed decimal), then a newline
\* a switch that takes every tag to the default case
PrintFormat_default(t) == "d"

PrintFormat(t) ==
    IF t = TYPE_F32 THEN "f32"
    ELSE IF t = TYPE_F64 THEN "f64"
    ELSE IF t \in {TYPE_U8, TYPE_U16, TYPE_U32, TYPE_U64} THEN "u"
    ELSE "d"

\* printf's decimal conversions.  A line of output is the string of its
\* characters, without the newline.
Digit(d) ==
    CASE d = 0 -> "0" [] d = 1 -> "1" [] d = 2 -> "2" [] d = 3 -> "3"
      [] d = 4 -> "4" [] d = 5 -> "5" [] d = 6 -> "6" [] d = 7 -> "7"
      [] d = 8 -> "8" [] d = 9 -> "9"

RECURSIVE DecimalNat(_)
DecimalNat(n) == IF n < 10 THEN Digit(n) ELSE DecimalNat(n \div 10) \o Digit(n % 10)

\* the digits of m + 1 for m >= 0, computed without leaving 32 bits
DecimalSucc(m) ==
    IF m % 10 = 9 THEN DecimalNat((m \div 10) + 1) \o "0"
    ELSE IF m < 10 THEN Digit(m + 1)
    ELSE DecimalNat(m \div 10) \o Digit((m % 10) + 1)

\* "%" PRId64 of the word n
Decimal(n) == IF n >= 0 THEN DecimalNat(n) ELSE "-" \o DecimalSucc(-(n + 1))

\* n >= 0 in nine digits with leading zeros
RECURSIVE Padded(_, _)
Padded(n, width) ==
    IF width = 0 THEN "" ELSE Padded(n \div 10, width - 1) \o Digit(n % 10)

\* "%" PRIu64 of (uint64_t) n: n itself, or 2^64 + n for a negative word,
\* which is 18446744073709551615 - m for m = -n - 1, subtracted in groups of
\* nine digits
UnsignedDecimal(n) ==
    IF n >= 0 THEN DecimalNat(n)
    ELSE LET m == -(n + 1)
             low == 709551615 - (m % 1000000000)
             borrow == IF low < 0 THEN 1 ELSE 0
             mid == (446744073 - (m \div 1000000000)) - borrow
         IN  "18" \o Padded(mid, 9) \o Padded(low + borrow * 1000000000, 9)

\* decimal numbers of any size: sequences of digits, the lowest first
RECURSIVE DigitsOf(_)
DigitsOf(n) == IF n < 10 THEN <<n>> ELSE <<n % 10>> \o DigitsOf(n \div 10)
\* ds * f + carry for a factor f below 2^20
RECURSIVE TimesDigits(_, _, _)
TimesDigits(ds, f, carry) ==
    IF ds = <<>> THEN (IF carry = 0 THEN <<>> ELSE DigitsOf(carry))
    ELSE LET p == Head(ds) * f + carry
         IN  <<p % 10>> \o TimesDigits(Tail(ds), f, p \div 10)
RECURSIVE Power(_, _)
Power(f, n) == IF n = 0 THEN 1 ELSE f * Power(f, n - 1)
\* ds * f^n for f = 2 and f = 5, eight factors at a time
RECURSIVE TimesPower(_, _, _)
TimesPower(ds, f, n) ==
    IF n <= 8 THEN TimesDigits(ds, Power(f, n), 0)
    ELSE TimesPower(TimesDigits(ds, Power(f, 8), 0), f, n - 8)
RECURSIVE SuccDigits(_)
SuccDigits(ds) ==
    IF ds = <<>> THEN <<1>>
    ELSE IF Head(ds) = 9 THEN <<0>> \o SuccDigits(Tail(ds))
    ELSE <<Head(ds) + 1>> \o Tail(ds)
Zeros(n) == [i \in 1..n |-> 0]
RECURSIVE DigitsText(_)
DigitsText(ds) == IF ds = <<>> THEN "" ELSE DigitsText(Tail(ds)) \o Digit(Head(ds))

\* the digits d of m * 5^k as a number of at least places + 1 digits whose
\* last places digits are the fraction
Scaled(d, k) == IF k <= 6 THEN Zeros(6 - k) \o d ELSE d
PadTo(p, places) == p \o Zeros(IF Len(p) > places THEN 0 ELSE (places + 1) - Len(p))
\* q without its lowest drop digits, rounded: up if what is dropped is more
\* than half a unit of the kept, a tie to the even neighbour
Rounded(q, drop, kept) ==
    IF /\ drop > 0
       /\ \/ q[drop] > 5
          \/ /\ q[drop] = 5
             /\ \/ \E i \in 1..(drop - 1) : q[i] # 0
                \/ kept[1] % 2 = 1
    THEN SuccDigits(kept) ELSE kept
RoundedAt(q, drop) == Rounded(q, drop, SubSeq(q, drop + 1, Len(q)))
SixPlaces(s) == DigitsText(SubSeq(s, 7, Len(s))) \o "." \o DigitsText(SubSeq(s, 1, 6))

\* "%f" of m / 2^k for 0 < m < 2^24: m * 5^k / 10^k is its exact decimal
\* expansion, rounded to six places, a tie to the even neighbour
FractionText(m, k) ==
    IF k >= 45 THEN "0.000000"
    ELSE IF k <= 6
    THEN SixPlaces(RoundedAt(PadTo(Scaled(TimesPower(DigitsOf(m), 5, k), k), 6), 0))
    ELSE SixPlaces(RoundedAt(PadTo(TimesPower(DigitsOf(m), 5, k), k), k - 6))

\* "%f" of the float with the 31 bits u below its sign bit: exponent field
\* e and mantissa field f give (2^23 + f) * 2^(e - 150), or f * 2^-149 for
\* e = 0, infinity and NaN for e = 255
FloatMagnitudeText(u) ==
    LET e == u \div 8388608
        f == u % 8388608
    IN  IF e = 255 THEN (IF f = 0 THEN "inf" ELSE "nan")
        ELSE IF e = 0 THEN "0.000000"
        ELSE IF e >= 150
        THEN DigitsText(TimesPower(DigitsOf(8388608 + f), 2, e - 150)) \o ".000000"
        ELSE FractionText(8388608 + f, 150 - e)

\* "%f" of the float in the low 32 bits of the word ("f32"), and of the
\* double whose 64 bits are the sign-extended word ("f64"): a word >= 0 is
\* a subnormal double below 2^-1043, a word < 0 has all the bits of sign
\* and exponent set and is a NaN, which glibc prints with its sign
FloatText(fmt, bits) ==
    IF fmt = "f64" THEN (IF bits >= 0 THEN "0.000000" ELSE "-nan")
    ELSE IF bits >= 0 THEN FloatMagnitudeText(bits)
    ELSE "-" \o FloatMagnitudeText((bits + INT_MAX) + 1)

PrintText(t, value) ==
    CASE PrintFormat(t) = "u" -> UnsignedDecimal(value)
      [] PrintFormat(t) = "d" -> Decimal(value)
      [] OTHER -> FloatText(PrintFormat(t), value)

interp_print(v) ==
    IF ~(v.sp > 0) THEN Aborted(v)
    ELSE LET t == v.types[v.sp - 1]
             value == v.stack[v.sp - 1]
             v1 == vm_pop(v)
         IN  [v1 EXCEPT !.out = Append(v.out, PrintText(t, value))]

(***************************************************************************)
(* The six hooks of INTERPRETER_BACKEND (src/backend/interpreter.h), which *)
(* keeps no type tags.                                                     *)
(***************************************************************************)
\* interp_push(VM *, word) is called as op_push(vm, type, imm), through a
\* pointer to another function type: undefined behaviour.  A build that
\* passes arguments by position hands the callee the type as its word: for
\* a negative type sign-extended, or zero-extended and outside the sub-range
arith_push(v, type, imm) ==
    {vm_push(v, type)} \cup (IF type < 0 THEN {Beyond(v)} ELSE {})

\* two vm_pops, fn(b, a), vm_push: no tag is read or written
arith_binary(v, fn) ==
    IF ~(v.sp > 0) THEN Aborted(v)
    ELSE IF ~(v.sp > 1) THEN Aborted([v EXCEPT !.sp = 0])
    ELSE LET a == v.stack[v.sp - 1]
             b == v.stack[v.sp - 2]
             r == CallFn(fn, b, a)
             v2 == [v EXCEPT !.sp = v.sp - 2]
         IN  IF r.kind = "abort" THEN Aborted(v2)
             ELSE IF r.kind = "beyond" THEN Beyond(v2)
             ELSE vm_push(v2, r.val)

\* printf("%i\n", value) of a word of the sub-range: its signed decimal
arith_print(v) ==
    IF ~(v.sp > 0) THEN Aborted(v)
    ELSE [vm_pop(v) EXCEPT !.out = Append(v.out, Decimal(v.stack[v.sp - 1]))]

interp_not(v) ==
    LET v1 == vm_pop(v)
    IN  IF v1.status # "running" THEN v1
        ELSE vm_push(v1, IF v.stack[v.sp - 1] # 0 THEN 0 ELSE 1)

interp_gez(v) ==
    LET v1 == vm_pop(v)
    IN  IF v1.status # "running" THEN v1
        ELSE vm_push(v1, IF v.stack[v.sp - 1] >= 0 THEN 1 ELSE 0)

\* interp_deref that saves tp and stays where it is
interp_deref_staying(v) == vm_push_tp(v, v.tp)

interp_deref(v) ==
    LET v1 == vm_push_tp(v, v.tp)
    IN  IF v1.status # "running" THEN v1
        ELSE IF ~InTape(v.tp) THEN OobRead(v1)
        ELSE LET new_tp == v.tape[v.tp]
             IN  IF ~(new_tp >= 0 /\ new_tp < TAPE_SIZE) THEN Aborted(v1)
                 ELSE [v1 EXCEPT !.tp = new_tp]

\* interp_refer that drops the saved tp instead of restoring it
interp_refer_dropping(v) == vm_pop_tp(v)

interp_refer(v) ==
    LET v1 == vm_pop_tp(v)
    IN  IF v1.status # "running" THEN v1
        ELSE [v1 EXCEPT !.tp = v.tp_stack[v.tp_sp - 1]]

interp_where(v) == vm_push(v, v.tp)

\* the shared body of interp_offset and interp_index: tp moved by the signed
\* word d.  (int)step is -d, except that step = 2^31 converts to INT_MIN;
\* tp - INT_MIN overflows an int for tp >= 0, which is undefined.
TpShift(v, d) ==
    IF d < 0
    THEN IF d = INT_MIN
         THEN IF v.tp >= 0 THEN [v EXCEPT !.status = "undefined"]
              ELSE [v EXCEPT !.tp = (v.tp + INT_MAX) + 1]
         ELSE IF ~(v.tp >= -d) THEN Aborted(v)
              ELSE [v EXCEPT !.tp = v.tp + d]
    ELSE LET t == WrapAdd(v.tp, d)
         IN  IF ~(t >= 0 /\ t < TAPE_SIZE) THEN Aborted([v EXCEPT !.tp = t])
             ELSE [v EXCEPT !.tp = t]

interp_offset(v, imm) == TpShift(v, imm)

interp_index(v) ==
    IF ~InTape(v.tp) THEN OobRead(v)
    ELSE TpShift(v, v.tape[v.tp])

(***************************************************************************)
(* Structured control flow.  c is the bytecode (a sequence, so the word at *)
(* position i is c[i + 1]) and n its length.  depth is a size_t: it is     *)
(* only ever compared with 0, so its wrap below 0 is kept as -1, -2, ...   *)
(***************************************************************************)
\* the immediates the scanners step over after an opcode that is not a
\* block opcode
SkipImm(op) ==
    IF op = OP_PUSH \/ op = OP_SET THEN 2
    ELSE IF op = OP_MOVE \/ op = OP_FUNCTION \/ op = OP_CALL \/ op = OP_WHILE THEN 1
    ELSE 0

\* the ip interp_function's scan leaves, started at position i
RECURSIVE ScanFunction(_, _, _, _)
ScanFunction(c, n, i, depth) ==
    IF ~(i < n) THEN n
    ELSE LET op == c[i + 1]
         IN  IF op = OP_FUNCTION \/ op = OP_IF \/ op = OP_WHILE
             THEN ScanFunction(c, n, i + 1, depth + 1)
             ELSE IF op = OP_ENDBLOCK /\ depth = 0 THEN i + 1
             ELSE IF op = OP_ELSE \/ op = OP_ENDBLOCK
             THEN ScanFunction(c, n, i + 1, depth - 1)
             ELSE ScanFunction(c, n, i + 1 + SkipImm(op), depth)

\* the ip interp_if's scan leaves (condition zero)
RECURSIVE ScanIf(_, _, _, _)
ScanIf(c, n, i, depth) ==
    IF ~(i < n) THEN n
    ELSE LET op == c[i + 1]
         IN  IF op = OP_IF \/ op = OP_WHILE
             THEN ScanIf(c, n, i + 1, depth + 1)
             ELSE IF op = OP_ELSE /\ depth = 0 THEN i + 1
             ELSE IF op = OP_ENDBLOCK /\ depth = 0 THEN i + 1
             ELSE IF op = OP_ELSE \/ op = OP_ENDBLOCK
             THEN ScanIf(c, n, i + 1, depth - 1)
             ELSE ScanIf(c, n, i + 1 + SkipImm(op), depth)

\* interp_else's scan: [ip, found], found when it stopped at an ENDBLOCK
RECURSIVE ScanElse(_, _, _, _)
ScanElse(c, n, i, depth) ==
    IF ~(i < n) THEN [ip |-> n, found |-> FALSE]
    ELSE LET op == c[i + 1]
         IN  IF op = OP_IF \/ op = OP_WHILE
             THEN ScanElse(c, n, i + 1, depth + 1)
             ELSE IF op = OP_ENDBLOCK /\ depth = 0 THEN [ip |-> i + 1, found |-> TRUE]
             ELSE IF op = OP_ELSE \/ op = OP_ENDBLOCK
             THEN ScanElse(c, n, i + 1, depth - 1)
             ELSE ScanElse(c, n, i + 1 + SkipImm(op), depth)

\* the ip interp_while's scan leaves (condition zero)
RECURSIVE ScanWhile(_, _, _, _)
ScanWhile(c, n, i, depth) ==
    IF ~(i < n) THEN n
    ELSE LET op == c[i + 1]
         IN  IF op = OP_IF \/ op = OP_WHILE
             THEN ScanWhile(c, n, i + 1, depth + 1)
             ELSE IF op = OP_ENDBLOCK /\ depth = 0 THEN i + 1
             ELSE IF op = OP_ELSE \/ op = OP_ENDBLOCK
             THEN ScanWhile(c, n, i + 1, depth - 1)
             ELSE ScanWhile(c, n, i + 1 + SkipImm(op), depth)

\* functions[] is never initialised (main.c declares `VM vm_parsed;`, and
\* neither the parser nor run_vm writes the table): an entry no Function has
\* written holds UNINIT here, and reading it gives an indeterminate ip
UNINIT == -1
UninitIps(v) == {0, v.code_len}

interp_function(v, func_index) ==
    IF ~ULess(func_index, FUNCTIONS_SIZE) THEN v
    ELSE [v EXCEPT !.functions[func_index] = v.ip,
                   !.functions_count =
                       IF v.functions_count <= func_index THEN func_index + 1
                       ELSE v.functions_count,
                   !.ip = ScanFunction(v.code, v.code_len, v.ip, 0)]

interp_call(v, func_index) ==
    IF ~(v.call_sp < CALL_STACK_SIZE) THEN {Aborted(v)}
    ELSE IF ~ULess(func_index, v.functions_count) THEN {Aborted(v)}
    ELSE LET v1 == [v EXCEPT !.call_stack[v.call_sp] =
                                 [return_ip |-> v.ip, old_fp |-> v.fp],
                             !.call_sp = v.call_sp + 1,
                             !.fp = v.sp]
         IN  IF v.functions[func_index] = UNINIT
             THEN {[v1 EXCEPT !.ip = g] : g \in UninitIps(v)}
             ELSE {[v1 EXCEPT !.ip = v.functions[func_index]]}

\* interp_return that leaves the callee's fp in place
interp_return_keeping_fp(v) ==
    IF ~(v.call_sp > 0) THEN Aborted(v)
    ELSE LET ret == IF v.sp > v.fp THEN v.stack[v.sp - 1] ELSE 0
             frame == v.call_stack[v.call_sp - 1]
             v1 == [v EXCEPT !.call_sp = v.call_sp - 1,
                             !.sp = v.fp,
                             !.ip = frame.return_ip]
         IN  vm_push(v1, ret)

interp_return(v) ==
    IF ~(v.call_sp > 0) THEN Aborted(v)
    ELSE LET ret == IF v.sp > v.fp THEN v.stack[v.sp - 1] ELSE 0
             frame == v.call_stack[v.call_sp - 1]
             v1 == [v EXCEPT !.call_sp = v.call_sp - 1,
                             !.sp = v.fp,
                             !.fp = frame.old_fp,
                             !.ip = frame.return_ip]
         IN  vm_push(v1, ret)

interp_if(v) ==
    LET v1 == vm_pop(v)
    IN  IF v1.status # "running" THEN v1
        ELSE IF v.stack[v.sp - 1] = 0
        THEN [v1 EXCEPT !.ip = ScanIf(v.code, v.code_len, v.ip, 0)]
        ELSE IF ~(v1.block_sp < BLOCK_STACK_SIZE) THEN Aborted(v1)
        ELSE [v1 EXCEPT !.block_stack[v1.block_sp] = [type |-> OP_IF, ip |-> v.ip],
                        !.block_sp = v1.block_sp + 1]

\* interp_else that lets control fall into the else branch
interp_else_falling_through(v) ==
    [v EXCEPT !.block_sp = IF v.block_sp > 0 THEN v.block_sp - 1 ELSE v.block_sp]

interp_else(v) ==
    LET r == ScanElse(v.code, v.code_len, v.ip, 0)
    IN  [v EXCEPT !.ip = r.ip,
                  !.block_sp = IF r.found /\ v.block_sp > 0 THEN v.block_sp - 1
                               ELSE v.block_sp]

\* interp_endblock that pops a While marker instead of jumping back
interp_endblock_falling_through(v) ==
    IF v.block_sp > 0 THEN [v EXCEPT !.block_sp = v.block_sp - 1] ELSE v

interp_endblock(v) ==
    IF v.block_sp > 0
    THEN IF v.block_stack[v.block_sp - 1].type = OP_WHILE
         THEN [v EXCEPT !.ip = v.block_stack[v.block_sp - 1].ip]
         ELSE [v EXCEPT !.block_sp = v.block_sp - 1]
    ELSE v

interp_while(v, cond_ip) ==
    LET v1 == vm_pop(v)
    IN  IF v1.status # "running" THEN v1
        ELSE IF v.stack[v.sp - 1] = 0
        THEN [v1 EXCEPT !.ip = ScanWhile(v.code, v.code_len, v.ip, 0)]
        ELSE IF ~(v1.block_sp < BLOCK_STACK_SIZE) THEN Aborted(v1)
        ELSE [v1 EXCEPT !.block_stack[v1.block_sp] = [type |-> OP_WHILE, ip |-> cond_ip],
                        !.block_sp = v1.block_sp + 1]

(***************************************************************************)
(* Building programs: the emit helpers and the program macros of vm.h      *)
(* (__push, __if, __else, __end, __label/__while, __func, ...).  A         *)
(* statement is a record [k, w, a, b, n]:                                  *)
(*   k = "ops":   the straight-line words w;                               *)
(*   k = "if":    __if; a; (n = 1: __else; b;) __end;                      *)
(*   k = "while": __label(l); w; __while(l); a; __end  (w computes the     *)
(*                condition);                                              *)
(*   k = "func":  __func(n); a; __end.                                     *)
(***************************************************************************)
emit0(buf, op) == Append(buf, op)
emit1(buf, op, imm) == buf \o <<op, imm>>
emit2(buf, op, imm1, imm2) == buf \o <<op, imm1, imm2>>

Ops(w) == [k |-> "ops", w |-> w, a |-> <<>>, b |-> <<>>, n |-> 0]
If(a) == [k |-> "if", w |-> <<>>, a |-> a, b |-> <<>>, n |-> 0]
IfElse(a, b) == [k |-> "if", w |-> <<>>, a |-> a, b |-> b, n |-> 1]
While(w, a) == [k |-> "while", w |-> w, a |-> a, b |-> <<>>, n |-> 0]
Func(n, a) == [k |-> "func", w |-> <<>>, a |-> a, b |-> <<>>, n |-> n]

RECURSIVE Emit(_, _)
Emit(buf, stmts) ==
    IF stmts = <<>> THEN buf
    ELSE LET s == Head(stmts)
             done ==
                 IF s.k = "ops" THEN buf \o s.w
                 ELSE IF s.k = "if"
                 THEN LET t == Emit(emit0(buf, OP_IF), s.a)
                      IN  emit0(IF s.n = 1 THEN Emit(emit0(t, OP_ELSE), s.b) ELSE t,
                                OP_ENDBLOCK)
                 ELSE IF s.k = "while"
                 THEN emit0(Emit(emit1(buf \o s.w, OP_WHILE, Len(buf)), s.a), OP_ENDBLOCK)
                 ELSE emit0(Emit(emit1(buf, OP_FUNCTION, s.n), s.a), OP_ENDBLOCK)
         IN  Emit(done, Tail(stmts))

Program(stmts) == Emit(<<>>, stmts)

(***************************************************************************)
(* The sample programs of src/programs.                                    *)
(***************************************************************************)
Prog1 == Program(<<Ops(<<
    OP_SET, TYPE_PTR, 1, OP_DEREF, OP_SET, TYPE_I64, 123, OP_REFER,
    OP_OFFSET, 1, OP_LOAD, OP_PRINT, OP_OFFSET, -1, OP_WHERE, OP_PRINT,
    OP_HALT>>)>>)

Prog2 == Program(<<
    Func(0, <<Ops(<<OP_PUSH, TYPE_I64, 7, OP_PUSH, TYPE_I64, 35, OP_ADD, OP_RETURN>>)>>),
    Func(1, <<Ops(<<OP_PUSH, TYPE_I64, 5, OP_PUSH, TYPE_I64, 3, OP_MUL, OP_RETURN>>)>>),
    Ops(<<OP_CALL, 0, OP_CALL, 1, OP_ADD, OP_PRINT, OP_PUSH, TYPE_I64, 1>>),
    IfElse(<<Ops(<<OP_PUSH, TYPE_I64, 100, OP_PRINT>>)>>,
           <<Ops(<<OP_PUSH, TYPE_I64, 200, OP_PRINT>>)>>),
    Ops(<<OP_PUSH, TYPE_I64, 4, OP_STORE>>),
    While(<<OP_LOAD>>,
          <<Ops(<<OP_LOAD, OP_PRINT, OP_LOAD, OP_PUSH, TYPE_I64, 1, OP_SUB, OP_STORE>>)>>),
    Ops(<<OP_HALT>>)>>)

Prog3 == Program(<<Ops(<<
    OP_SET, TYPE_PTR, 2, OP_DEREF, OP_SET, TYPE_I64, 555, OP_REFER,
    OP_OFFSET, 2, OP_LOAD, OP_PRINT, OP_OFFSET, -2, OP_OFFSET, 2,
    OP_SET, TYPE_I64, 1, OP_LOAD, OP_INDEX, OP_WHERE, OP_PRINT, OP_HALT>>)>>)

Prog4 == Program(<<
    Func(0, <<Ops(<<OP_PUSH, TYPE_I64, 7, OP_PUSH, TYPE_I64, 10, OP_ADD, OP_RETURN>>)>>),
    Func(1, <<Ops(<<OP_SET, TYPE_PTR, 4, OP_RETURN>>)>>),
    Ops(<<OP_CALL, 1, OP_CALL, 0, OP_MOVE, 4, OP_STORE, OP_MOVE, -4,
          OP_DEREF, OP_OFFSET, 0, OP_LOAD, OP_PRINT, OP_HALT>>)>>)

Prog5 == Program(<<Ops(<<
    OP_SET, TYPE_PTR, 1, OP_OFFSET, 1, OP_SET, TYPE_PTR, 2, OP_OFFSET, 1,
    OP_SET, TYPE_PTR, 3, OP_OFFSET, -2, OP_DEREF, OP_DEREF, OP_DEREF,
    OP_SET, TYPE_I64, 999, OP_REFER, OP_REFER, OP_REFER, OP_WHERE, OP_PRINT,
    OP_OFFSET, 3, OP_LOAD, OP_PRINT, OP_HALT>>)>>)

Prog6 == Program(<<Ops(<<
    OP_PUSH, TYPE_I64, 10, OP_PUSH, TYPE_I64, 3, OP_REM, OP_PRINT,
    OP_PUSH, TYPE_BOOL, 0, OP_NOT, OP_PRINT,
    OP_PUSH, TYPE_U64, 5, OP_PUSH, TYPE_U64, 3, OP_BITAND, OP_PRINT,
    OP_PUSH, TYPE_U64, 5, OP_PUSH, TYPE_U64, 2, OP_BITOR, OP_PRINT,
    OP_PUSH, TYPE_U64, 6, OP_PUSH, TYPE_U64, 3, OP_BITXOR, OP_PRINT,
    OP_PUSH, TYPE_U64, 1, OP_PUSH, TYPE_U64, 3, OP_LSH, OP_PRINT,
    OP_PUSH, TYPE_U64, 16, OP_PUSH, TYPE_U64, 2, OP_LRSH, OP_PRINT,
    OP_PUSH, TYPE_I64, -8, OP_PUSH, TYPE_I64, 1, OP_ARSH, OP_PRINT,
    OP_PUSH, TYPE_I64, -1, OP_GEZ, OP_PRINT,
    OP_PUSH, TYPE_I64, 0, OP_GEZ, OP_PRINT, OP_HALT>>)>>)

\* the two halves of src/programs/2.c as programs of their own: the functions
\* with the if/else, and the count-down loop
FunctionIfElseProgram == Program(<<
    Func(0, <<Ops(<<OP_PUSH, TYPE_I64, 7, OP_PUSH, TYPE_I64, 35, OP_ADD, OP_RETURN>>)>>),
    Func(1, <<Ops(<<OP_PUSH, TYPE_I64, 5, OP_PUSH, TYPE_I64, 3, OP_MUL, OP_RETURN>>)>>),
    Ops(<<OP_CALL, 0, OP_CALL, 1, OP_ADD, OP_PRINT, OP_PUSH, TYPE_I64, 1>>),
    IfElse(<<Ops(<<OP_PUSH, TYPE_I64, 100, OP_PRINT>>)>>,
           <<Ops(<<OP_PUSH, TYPE_I64, 200, OP_PRINT>>)>>),
    Ops(<<OP_HALT>>)>>)

CountDownProgram == Program(<<
    Ops(<<OP_PUSH, TYPE_I64, 4, OP_STORE>>),
    While(<<OP_LOAD>>,
          <<Ops(<<OP_LOAD, OP_PRINT, OP_LOAD, OP_PUSH, TYPE_I64, 1, OP_SUB, OP_STORE>>)>>),
    Ops(<<OP_HALT>>)>>)

SamplePrograms ==
    {Prog1, Prog2, Prog3, Prog4, Prog5, Prog6, FunctionIfElseProgram, CountDownProgram}

(***************************************************************************)
(* The programs the model runs.                                            *)
(***************************************************************************)
\* push k and print it: a visible trace of the place being executed
Mark(k) == <<OP_PUSH, TYPE_I64, k, OP_PRINT>>
PushC(c) == <<OP_PUSH, TYPE_I64, c>>
\* tape[tp] := tape[tp] - 1
Decrement == <<OP_LOAD, OP_PUSH, TYPE_I64, 1, OP_SUB, OP_STORE>>
\* the loop counts the model starts a count-down loop with
MaxCount == 2

\* well-nested bodies: straight-line code, an if with and without else, a
\* count-down loop on the next tape cell, and immediates that read as block
\* opcodes
InnerBodies ==
    {<<Ops(Mark(1))>>}
    \cup {<<Ops(<<OP_OFFSET, OP_ENDBLOCK, OP_OFFSET, -OP_ENDBLOCK>> \o Mark(1))>>}
    \cup {<<Ops(PushC(c)), IfElse(<<Ops(Mark(2))>>, <<Ops(Mark(3))>>)>> : c \in {0, 1}}
    \cup {<<Ops(PushC(c)), If(<<Ops(Mark(2))>>)>> : c \in {0, 1}}
    \cup {<<Ops(<<OP_MOVE, 1, OP_PUSH, TYPE_I64, n, OP_STORE>>),
            While(<<OP_LOAD>>, <<Ops(Mark(4) \o Decrement)>>),
            Ops(<<OP_MOVE, -1>>)>> : n \in 0..MaxCount}

IfPrograms ==
    {Program(<<Ops(PushC(c)), If(t), Ops(Mark(9) \o <<OP_HALT>>)>>) :
        c \in {0, 1}, t \in InnerBodies}
    \cup {Program(<<Ops(PushC(c)), IfElse(t, e), Ops(Mark(9) \o <<OP_HALT>>)>>) :
        c \in {0, 1}, t \in InnerBodies, e \in InnerBodies}

WhilePrograms ==
    {Program(<<Ops(<<OP_PUSH, TYPE_I64, n, OP_STORE>>),
               While(<<OP_LOAD>>, b \o <<Ops(Decrement)>>),
               Ops(Mark(9) \o <<OP_HALT>>)>>) :
        n \in 0..MaxCount, b \in InnerBodies}

\* a function whose body is b and then returns 42; f1 called from f0; and a
\* function that calls itself tape[0] times
FuncPrograms ==
    {Program(<<Func(0, b \o <<Ops(<<OP_PUSH, TYPE_I64, 42, OP_RETURN>>)>>),
               Ops(<<OP_PUSH, TYPE_I64, 5, OP_CALL, 0, OP_PRINT, OP_HALT>>)>>) :
        b \in InnerBodies}
    \cup {Program(<<
            Func(1, <<Ops(<<OP_PUSH, TYPE_I64, 5, OP_RETURN>>)>>),
            Func(0, <<Ops(<<OP_PUSH, TYPE_I64, 1, OP_CALL, 1, OP_ADD, OP_RETURN>>)>>),
            Ops(<<OP_PUSH, TYPE_I64, 100, OP_CALL, 0, OP_PRINT, OP_CALL, 1, OP_PRINT,
                  OP_HALT>>)>>)}
    \cup {Program(<<
            Func(0, <<Ops(<<OP_LOAD>>),
                      IfElse(<<Ops(Decrement \o <<OP_CALL, 0, OP_PUSH, TYPE_I64, 1, OP_ADD>>)>>,
                             <<Ops(<<OP_PUSH, TYPE_I64, 0>>)>>),
                      Ops(<<OP_RETURN>>)>>),
            Ops(<<OP_SET, TYPE_I64, n, OP_CALL, 0, OP_PRINT, OP_HALT>>)>>) :
        n \in 0..MaxCount}

\* every block closed by its ENDBLOCK, every call returned from
WellFormedPrograms == SamplePrograms \cup IfPrograms \cup WhilePrograms \cup FuncPrograms

\* two operands with the same tag, under one deeper entry and over a written
\* tape cell, and a binary opcode
BinaryOps == {OP_ADD, OP_SUB, OP_MUL, OP_DIV, OP_REM, OP_ORASSign, OP_ANDASSign,
              OP_BITAND, OP_BITOR, OP_BITXOR, OP_LSH, OP_LRSH, OP_ARSH}
OperandValues == {-8, -1, 0, 1, 3, 35}
BinaryPrograms ==
    {<<OP_SET, TYPE_I64, 77, OP_PUSH, TYPE_BOOL, 9, OP_PUSH, t, a, OP_PUSH, t, b, op,
       OP_PRINT, OP_HALT>> :
        t \in {TYPE_I64, TYPE_U64}, a \in OperandValues, b \in OperandValues,
        op \in BinaryOps}
    \cup {<<OP_PUSH, TYPE_I64, -8, OP_PUSH, TYPE_I64, 60, op, OP_PRINT>> :
            op \in {OP_LRSH, OP_ARSH, OP_LSH}}
    \cup {<<OP_PUSH, TYPE_I64, 3, OP_PUSH, TYPE_U8, 4, op>> : op \in BinaryOps}

\* (a Div b) Mul b Add (a Rem b), for dividends and divisors of both signs
RoundTripDividends == {-32768, -35, -7, -1, 0, 1, 7, 35, 32767}
RoundTripDivisors == {-32768, -3, -1, 0, 1, 2, 3, 32767}
RoundTripPrograms ==
    {<<OP_PUSH, TYPE_I64, a, OP_PUSH, TYPE_I64, b, OP_DIV,
       OP_PUSH, TYPE_I64, b, OP_MUL,
       OP_PUSH, TYPE_I64, a, OP_PUSH, TYPE_I64, b, OP_REM, OP_ADD>> :
        a \in RoundTripDividends, b \in RoundTripDivisors}

\* tape pointer moves by immediates at and around the edges of the tape and
\* of the int range, then a write and a read at the place reached
EdgeMoves == {INT_MIN, -TAPE_SIZE, -1, 0, 1, TAPE_SIZE - 1, TAPE_SIZE,
              INT_MAX - 512, INT_MAX}
MoveOps == {OP_MOVE, OP_OFFSET}
PointerPrograms ==
    {<<o1, a, o2, b, OP_SET, TYPE_I64, 5000, OP_LOAD>> :
        o1 \in MoveOps, o2 \in MoveOps, a \in EdgeMoves, b \in EdgeMoves}
    \cup {<<OP_MOVE, 1, OP_MOVE, INT_MAX, OP_MOVE, INT_MAX - 512, last, OP_HALT>> :
            last \in {OP_STORE, OP_DEREF, OP_INDEX, OP_REFER}}
    \cup {<<OP_MOVE, 1, OP_MOVE, INT_MAX, OP_MOVE, INT_MAX - 512,
            OP_PUSH, TYPE_I64, 5000, OP_STORE, OP_HALT>>}
    \cup {<<OP_MOVE, a, OP_SET, TYPE_I64, d, OP_INDEX, OP_WHERE, OP_PRINT>> :
            a \in {0, 1, TAPE_SIZE - 1}, d \in EdgeMoves}
    \cup {<<OP_SET, TYPE_PTR, d, OP_DEREF, OP_MOVE, 1, OP_DEREF, OP_OFFSET, 2,
            OP_REFER, OP_REFER, OP_REFER>> :
            d \in {-1, 0, 5, TAPE_SIZE - 1, TAPE_SIZE}}

\* calls of function indices that were and were not defined
CallPrograms ==
    {<<OP_FUNCTION, f, OP_PUSH, TYPE_I64, 1, OP_RETURN, OP_ENDBLOCK,
       OP_LOAD, OP_IF, OP_HALT, OP_ENDBLOCK, OP_SET, TYPE_I64, 1, OP_CALL, g,
       OP_PRINT>> :
        f \in {-1, 0, 1, 2, FUNCTIONS_SIZE - 1, FUNCTIONS_SIZE},
        g \in {-1, 0, 1, 2, FUNCTIONS_SIZE - 1, FUNCTIONS_SIZE}}

\* runs that fill a stack: a loop that never ends, a recursion that never
\* returns (pushing, or dereferencing, five times a call)
StressPrograms ==
    {Program(<<While(PushC(1), <<Ops(<<OP_NOP>>)>>)>>),
     Program(<<Func(0, <<Ops(PushC(1) \o PushC(1) \o PushC(1) \o PushC(1) \o PushC(1)
                             \o <<OP_CALL, 0>>)>>),
               Ops(<<OP_CALL, 0>>)>>),
     Program(<<Func(0, <<Ops(<<OP_DEREF, OP_DEREF, OP_DEREF, OP_DEREF, OP_DEREF,
                               OP_CALL, 0>>)>>),
               Ops(<<OP_CALL, 0>>)>>),
     Program(<<Func(0, <<Ops(<<OP_CALL, 0>>)>>), Ops(<<OP_CALL, 0>>)>>)}

\* an opcode that carries immediates as the last instruction of the code,
\* followed by fewer words than it reads, and by just as many
ImmediateOps == {OP_PUSH, OP_SET, OP_MOVE, OP_OFFSET, OP_FUNCTION, OP_CALL, OP_WHILE}
TruncatedPrograms ==
    {<<OP_NOP, op>> : op \in ImmediateOps}
    \cup {<<op, w>> : op \in ImmediateOps, w \in {0, 1, TYPE_I64}}
    \cup {<<op, TYPE_I64, 1>> : op \in {OP_PUSH, OP_SET}}
    \cup {<<OP_PUSH, TYPE_I64, 1, op, 0>> : op \in ImmediateOps}

\* every program of at most MaxGarbageLen words over the opcodes and one
\* word that is no opcode
MaxGarbageLen == 1
GarbageWords == 0..(OP_HALT + 1)
RECURSIVE WordsOfLen(_)
WordsOfLen(k) ==
    IF k = 0 THEN {<<>>}
    ELSE {Append(p, w) : p \in WordsOfLen(k - 1), w \in GarbageWords}
GarbagePrograms == UNION {WordsOfLen(k) : k \in 0..MaxGarbageLen}

\* Push(t, v); Print for every TypeTag t, one tag below and one above them,
\* and words v of both signs and at both ends of the range; alone, and with a
\* value already on the stack
PrintTags == (TYPE_UNKNOWN - 1)..(TYPE_VOID + 1)
PrintValues == {INT_MIN, -1000000001, -1, 0, 1, 255, INT_MAX}

PushPrintPrograms ==
    {pre \o <<OP_PUSH, t, v, OP_PRINT, OP_HALT>> :
        pre \in {<<>>, <<OP_PUSH, TYPE_U8, -1>>}, t \in PrintTags, v \in PrintValues}

\* a cell at tp is stored with one tag, then stored with another and loaded
StoreLoadPrograms ==
    {<<OP_MOVE, m, OP_PUSH, TYPE_BOOL, 1, OP_STORE, OP_PUSH, TYPE_I8, 3,
       OP_PUSH, t, v, OP_STORE, OP_LOAD, OP_HALT>> :
        m \in {0, 1, TAPE_SIZE - 1}, t \in {TYPE_U8, TYPE_PTR}, v \in {-1, 7}}

\* a function returns -5 with the tag t above no, one or two other values of
\* its frame, and the caller prints what it got
ReturnTagPrograms ==
    {<<OP_FUNCTION, 0>> \o locals \o
     <<OP_PUSH, t, -5, OP_RETURN, OP_ENDBLOCK, OP_CALL, 0, OP_PRINT, OP_HALT>> :
        locals \in {<<>>, <<OP_PUSH, TYPE_U8, 1>>,
                    <<OP_PUSH, TYPE_U8, 1, OP_PUSH, TYPE_I64, 2>>},
        t \in {TYPE_U8, TYPE_I64}}

Programs ==
    StoreLoadPrograms \cup ReturnTagPrograms \cup WellFormedPrograms \cup BinaryPrograms \cup PointerPrograms \cup CallPrograms
    \cup StressPrograms \cup GarbagePrograms \cup RoundTripPrograms
    \cup TruncatedPrograms \cup PushPrintPrograms

\* programs for the tables that miss hooks: no hook moves ip, so every word
\* at an instruction boundary is dispatched
HookPrograms == SamplePrograms \cup TruncatedPrograms \cup GarbagePrograms

\* two loops, the second inside the first, whose cond_ip immediates c1 and
\* c2 range over every position of the program and one before and one after
\* it: labels that precede their While, that are shared, that are the While
\* itself, that are still to come, that fall on an immediate or outside.
\* The parser takes any label for "while <label>", forward ones included.
LoopLabelPrograms ==
    {<<OP_PUSH, TYPE_I64, 1, OP_LOAD, OP_WHILE, c1,
       OP_LOAD, OP_WHILE, c2, OP_ENDBLOCK, OP_ENDBLOCK, OP_HALT>> :
        c1 \in -1..12, c2 \in -1..12}

\* a loop in a loop and a loop after it, and a loop whose condition starts
\* right after a function's EndBlock
NestedLoopPrograms ==
    {Program(<<Ops(<<OP_PUSH, TYPE_I64, n, OP_STORE>>),
               While(<<OP_LOAD>>,
                     <<While(<<OP_LOAD, OP_NOT>>, <<Ops(Decrement)>>), Ops(Decrement)>>),
               While(<<OP_LOAD>>, <<Ops(Decrement)>>),
               Ops(<<OP_HALT>>)>>) : n \in 0..MaxCount}
    \cup {Program(<<Func(0, <<Ops(<<OP_PUSH, TYPE_I64, 5, OP_RETURN>>)>>),
                    While(<<OP_CALL, 0>>, <<Ops(<<OP_CALL, 0, OP_PRINT>>)>>),
                    Ops(<<OP_HALT>>)>>)}
    \cup {<<OP_FUNCTION, 0, OP_PUSH, TYPE_I64, 5, OP_RETURN, OP_ENDBLOCK,
             OP_LOAD, OP_WHILE, c, OP_ENDBLOCK, OP_HALT>> : c \in {6, 7}}

\* a call of function f before and after Function(g) is lowered, for the
\* function indices of a small table: calls that follow their function, calls
\* that precede it (forward references), and calls of another function
FunctionIndices == 0..MaxCount

CallLabelPrograms ==
    {<<OP_CALL, f, OP_PRINT, OP_FUNCTION, g, OP_PUSH, TYPE_I64, 5, OP_RETURN,
       OP_ENDBLOCK, OP_CALL, f, OP_PRINT, OP_HALT>> :
        f \in FunctionIndices, g \in FunctionIndices}

\* loads, returns, function heads and block ends in every order: IRs in
\* which a Ret opens, ends or sits inside a clause, labels that follow one
\* another, and instructions before the first label
MaxDumpLen == 3

DumpPieces == {<<OP_LOAD>>, <<OP_RETURN>>, <<OP_FUNCTION, 0>>, <<OP_ENDBLOCK>>}

RECURSIVE PiecesOfLen(_)
PiecesOfLen(n) ==
    IF n = 0 THEN {<<>>}
    ELSE {p \o q : p \in DumpPieces, q \in PiecesOfLen(n - 1)}

DumpPrograms == {p \o <<OP_HALT>> : p \in UNION {PiecesOfLen(n) : n \in 1..MaxDumpLen}}

\* two Moves: the second takes the virtual tape pointer below 0, to
\* TAPE_SIZE or beyond, or leaves it on the tape
MovePrograms ==
    {<<OP_MOVE, a, OP_MOVE, b, OP_HALT>> :
        a \in {0, 1000},
        b \in {INT_MIN, -1001, -1000, -1, 23, 24, INT_MAX}}

\* one Load more than the operand stack of the lowering holds, and one
\* Function more than its block stack holds
FullStackPrograms ==
    {[i \in 1..(STACK_SIZE + 1) |-> OP_LOAD] \o <<OP_HALT>>,
     [i \in 1..(2 * 257) |-> IF i % 2 = 1 THEN OP_FUNCTION ELSE 0] \o <<OP_HALT>>}

\* an Else on an open Function, While and Else, and a Function and a Call
\* with an index on either side of func_label
MisplacedPrograms ==
    {<<OP_FUNCTION, 0, OP_ELSE, OP_HALT>>,
     <<OP_LOAD, OP_WHILE, 0, OP_ELSE, OP_HALT>>,
     <<OP_LOAD, OP_IF, OP_ELSE, OP_ELSE, OP_HALT>>}
    \cup {<<op, idx, OP_HALT>> : op \in {OP_FUNCTION, OP_CALL}, idx \in {-1, 255, 256}}

TacPrograms ==
    SamplePrograms \cup WhilePrograms \cup IfPrograms \cup FuncPrograms
    \cup LoopLabelPrograms \cup NestedLoopPrograms \cup CallLabelPrograms
    \cup DumpPrograms
    \cup HookPrograms
    \cup MovePrograms \cup FullStackPrograms \cup MisplacedPrograms

(***************************************************************************)
(* The TAC lowering backend (src/frontend/tac/tac.h).  Its state, the      *)
(* tac_backend_state that vm->user_data points to, is the field user_data  *)
(* of the VM.  prog is the IR: instruction k of the C array is prog[k + 1].*)
(* stack is the virtual operand stack and sp its length; block_stack the   *)
(* open blocks and block_sp its length; temp_types the per-temp types,     *)
(* temp_cap its length and temp t its element t + 1.  A push on a full    *)
(* stack is undefined behaviour: Lowered gives its outcome.                *)
(***************************************************************************)
\* a tac_instr built with a designated initialiser: what is not named is 0
tac_instr(op) ==
    [op |-> op, dst |-> 0, lhs |-> 0, rhs |-> 0, imm |-> 0, dst_type |-> TYPE_UNKNOWN]

tac_emit(prog, instr) == Append(prog, instr)

tac_insert_at(prog, idx, instr) ==
    LET i == IF idx > Len(prog) THEN Len(prog) ELSE idx
    IN  SubSeq(prog, 1, i) \o <<instr>> \o SubSeq(prog, i + 1, Len(prog))

tac_setup(code_len) ==
    [prog |-> <<>>, stack |-> <<>>, next_temp |-> 0, tp |-> 0,
     label_counter |-> 1, block_stack |-> <<>>,
     func_label |-> [i \in 0..255 |-> -1],
     vm_ip_to_tac_index |-> [i \in 0..(code_len - 1) |-> -1],
     vm_ip_to_tac_label |-> [i \in 0..(code_len - 1) |-> -1],
     vm_code_len |-> code_len, temp_types |-> <<>>]

tac_record_vm_ip(s, vm_ip, tac_index) ==
    IF s.vm_code_len # 0 /\ vm_ip < s.vm_code_len
    THEN [s EXCEPT !.vm_ip_to_tac_index[vm_ip] = tac_index]
    ELSE s

\* a fix that leaves the entries that pointed at idx itself where they were
tac_fix_vm_map_past_insert(s, idx) ==
    [s EXCEPT !.vm_ip_to_tac_index =
        [i \in DOMAIN @ |-> IF @[i] > idx THEN @[i] + 1 ELSE @[i]]]

tac_fix_vm_map_after_insert(s, idx) ==
    [s EXCEPT !.vm_ip_to_tac_index =
        [i \in DOMAIN @ |-> IF @[i] >= 0 /\ @[i] >= idx THEN @[i] + 1 ELSE @[i]]]

\* the doubling of temp_cap until it exceeds needed
RECURSIVE GrownCap(_, _)
GrownCap(newcap, needed) ==
    IF newcap <= needed THEN GrownCap(newcap * 2, needed) ELSE newcap

tac_ensure_temp_capacity(s, needed) ==
    IF needed < Len(s.temp_types) THEN s
    ELSE LET temp_cap == Len(s.temp_types)
             newcap == GrownCap(IF temp_cap # 0 THEN temp_cap * 2 ELSE 16, needed)
         IN  [s EXCEPT !.temp_types =
                 [i \in 1..newcap |-> IF i <= temp_cap THEN @[i] ELSE TYPE_UNKNOWN]]

\* the head of every hook: the opcode's own ip, k words back from the decoded
\* ip, is mapped to the index the hook's first instruction will have
opcode_ip(v, k) == IF v.ip >= k THEN v.ip - k ELSE 0

Entered(v, k) ==
    tac_record_vm_ip(v.user_data, opcode_ip(v, k), Len(v.user_data.prog))

\* the VM with the backend state s that a hook leaves.  The hooks push on
\* int stack[STACK_SIZE] and on block_stack[256] without a check: a push on
\* a full stack is undefined behaviour, and the run is not followed past it.
\* In the x86-64 layout of tac_backend_state stack[STACK_SIZE] is sp, which
\* takes the temp pushed, and block_stack[256] is block_sp followed by
\* func_label[0..4], which take the entry's type, its three labels and the
\* two halves of its cond_vm_ip
Lowered(v, s) ==
    IF Len(s.stack) > STACK_SIZE
    THEN LET dst == s.stack[Len(s.stack)]
         IN  [v EXCEPT !.status = "undefined",
                       !.user_data = [s EXCEPT !.stack =
                           SubSeq(@, 1, IF dst >= 0 /\ dst <= STACK_SIZE
                                        THEN dst ELSE STACK_SIZE)]]
    ELSE IF Len(s.block_stack) > 256
    THEN LET b == s.block_stack[Len(s.block_stack)]
         IN  [v EXCEPT !.status = "undefined",
                       !.user_data = [s EXCEPT
                           !.block_stack = SubSeq(@, 1, b.type),
                           !.func_label[0] = b.start_label,
                           !.func_label[1] = b.else_label,
                           !.func_label[2] = b.end_label,
                           !.func_label[3] = b.cond_vm_ip,
                           !.func_label[4] = IF b.cond_vm_ip >= 0 THEN 0 ELSE -1]]
    ELSE [v EXCEPT !.user_data = s]

tac_push(v, type, imm) ==
    LET s == Entered(v, 3)
        tmp == s.next_temp
        t == tac_ensure_temp_capacity(s, tmp)
    IN  Lowered(v, [t EXCEPT
            !.next_temp = tmp + 1,
            !.temp_types[tmp + 1] = type,
            !.prog = tac_emit(@, [tac_instr("TAC_CONST") EXCEPT
                                    !.dst = tmp, !.imm = imm, !.dst_type = type]),
            !.stack = Append(@, tmp)])

\* tac_add ... tac_arsh, tac_orassign and tac_andassign are tac_binary with
\* their TacOp
tac_binary(v, op) ==
    LET s == Entered(v, 1)
        sp == Len(s.stack)
    IN  IF ~(sp >= 2) THEN Aborted(Lowered(v, s))
        ELSE LET rhs == s.stack[sp]
                 lhs == s.stack[sp - 1]
                 dst == s.next_temp
                 t == tac_ensure_temp_capacity(s, dst)
                 inferred_type ==
                     IF lhs >= 0 /\ lhs < Len(t.temp_types)
                     THEN t.temp_types[lhs + 1] ELSE TYPE_UNKNOWN
             IN  Lowered(v, [t EXCEPT
                     !.next_temp = dst + 1,
                     !.temp_types[dst + 1] = inferred_type,
                     !.prog = tac_emit(@, [tac_instr(op) EXCEPT
                                 !.dst = dst, !.lhs = lhs, !.rhs = rhs,
                                 !.dst_type = inferred_type]),
                     !.stack = Append(SubSeq(@, 1, sp - 2), dst)])

\* tac_not, tac_gez, tac_deref, tac_refer (k = 1, imm = 0) and tac_offset
\* (k = 2): pop one temp, emit op into a fresh temp, push it
tac_unary(v, k, op, imm) ==
    LET s == Entered(v, k)
        sp == Len(s.stack)
    IN  IF ~(sp >= 1) THEN Aborted(Lowered(v, s))
        ELSE LET lhs == s.stack[sp]
                 dst == s.next_temp
             IN  Lowered(v, [s EXCEPT
                     !.next_temp = dst + 1,
                     !.prog = tac_emit(@, [tac_instr(op) EXCEPT
                                 !.dst = dst, !.lhs = lhs, !.imm = imm]),
                     !.stack = Append(SubSeq(@, 1, sp - 1), dst)])

\* a Load that takes the number of its temp without advancing the counter
tac_load_same_temp(v, op) ==
    LET s == Entered(v, 1)
        dst == s.next_temp
    IN  Lowered(v, [s EXCEPT
            !.prog = tac_emit(@, [tac_instr(op) EXCEPT !.dst = dst]),
            !.stack = Append(@, dst)])

\* tac_load and tac_where: emit op into a fresh temp and push it
tac_load(v, op) ==
    LET s == Entered(v, 1)
        dst == s.next_temp
    IN  Lowered(v, [s EXCEPT
            !.next_temp = dst + 1,
            !.prog = tac_emit(@, [tac_instr(op) EXCEPT !.dst = dst]),
            !.stack = Append(@, dst)])

\* tac_store (dst = -1, from its positional initialiser) and tac_print
\* (dst = 0): pop one temp and emit op on it
tac_store(v, op, dst) ==
    LET s == Entered(v, 1)
        sp == Len(s.stack)
    IN  IF ~(sp >= 1) THEN Aborted(Lowered(v, s))
        ELSE Lowered(v, [s EXCEPT
                 !.prog = tac_emit(@, [tac_instr(op) EXCEPT
                             !.dst = dst, !.lhs = s.stack[sp]]),
                 !.stack = SubSeq(@, 1, sp - 1)])

\* tac_print_char, the op_print_char entry of __TAC: as tac_print, with
\* TAC_PRINTCHAR.  struct Backend of src/vm/vm.h has no member of that name
\* and run_vm no case that calls it: no action of the dispatch loop uses it
tac_print_char(v) == tac_store(v, "TAC_PRINTCHAR", 0)

\* the Move is emitted before the virtual tape pointer is checked.  tp is a
\* size_t below TAPE_SIZE: assert(tp >= (size_t)(-imm)) is tp + imm >= 0
\* and assert(tp + imm < TAPE_SIZE) is imm < TAPE_SIZE - tp, neither of
\* which leaves the integers.  The second assert comes after tp += imm: the
\* aborted state holds the 64-bit sum, which is above INT_MAX when
\* imm > INT_MAX - tp and is then written as its decimal numeral
\* (INT_MAX is 2147483 thousands and 647)
tac_move(v, imm) ==
    LET s == Entered(v, 2)
        e == [s EXCEPT !.prog = tac_emit(@, [tac_instr("TAC_MOVE") EXCEPT !.imm = imm])]
        over == imm - (INT_MAX - e.tp)
        units == 647 + (over % 1000)
    IN  IF imm < 0
        THEN IF ~(e.tp + imm >= 0) THEN Aborted(Lowered(v, e))
             ELSE Lowered(v, [e EXCEPT !.tp = @ + imm])
        ELSE IF ~(imm < TAPE_SIZE - e.tp)
             THEN Aborted(Lowered(v, [e EXCEPT
                      !.tp = IF imm <= INT_MAX - e.tp THEN @ + imm
                             ELSE DecimalNat(2147483 + (over \div 1000) + (units \div 1000))
                                      \o Padded(units % 1000, 3)]))
             ELSE Lowered(v, [e EXCEPT !.tp = @ + imm])

tac_index(v) ==
    LET s == Entered(v, 1)
        sp == Len(s.stack)
    IN  IF ~(sp >= 2) THEN Aborted(Lowered(v, s))
        ELSE LET dst == s.next_temp
             IN  Lowered(v, [s EXCEPT
                     !.next_temp = dst + 1,
                     !.prog = tac_emit(@, [tac_instr("TAC_INDEX") EXCEPT
                                 !.dst = dst, !.lhs = s.stack[sp - 1],
                                 !.rhs = s.stack[sp]]),
                     !.stack = Append(SubSeq(@, 1, sp - 2), dst)])

\* a Set that pops the pointer temp it stores through
tac_set_popping(v, type, imm) ==
    LET s == Entered(v, 3)
        valtmp == s.next_temp
        t == tac_ensure_temp_capacity(s, valtmp)
        c == [t EXCEPT
                !.next_temp = valtmp + 1,
                !.temp_types[valtmp + 1] = type,
                !.prog = tac_emit(@, [tac_instr("TAC_CONST") EXCEPT
                            !.dst = valtmp, !.imm = imm, !.dst_type = type])]
        sp == Len(c.stack)
    IN  IF sp >= 1
        THEN Lowered(v, [c EXCEPT
                !.prog = tac_emit(@, [tac_instr("TAC_SET") EXCEPT
                            !.lhs = c.stack[sp], !.rhs = valtmp]),
                !.stack = SubSeq(@, 1, sp - 1)])
        ELSE Lowered(v, [c EXCEPT
                !.next_temp = valtmp + 2,
                !.prog = tac_emit(tac_emit(@, [tac_instr("TAC_WHERE") EXCEPT
                                      !.dst = valtmp + 1, !.dst_type = TYPE_PTR]),
                                  [tac_instr("TAC_SET") EXCEPT
                                      !.lhs = valtmp + 1, !.rhs = valtmp])])

\* the pointer temp is peeked, not popped; with an empty stack one is made
\* by a Where and pushed
tac_set(v, type, imm) ==
    LET s == Entered(v, 3)
        valtmp == s.next_temp
        t == tac_ensure_temp_capacity(s, valtmp)
        c == [t EXCEPT
                !.next_temp = valtmp + 1,
                !.temp_types[valtmp + 1] = type,
                !.prog = tac_emit(@, [tac_instr("TAC_CONST") EXCEPT
                            !.dst = valtmp, !.imm = imm, !.dst_type = type])]
        sp == Len(c.stack)
        lhs == IF sp >= 1 THEN c.stack[sp] ELSE c.next_temp
        p == IF sp >= 1 THEN c
             ELSE LET u == tac_ensure_temp_capacity(c, lhs)
                  IN  [u EXCEPT
                          !.next_temp = lhs + 1,
                          !.temp_types[lhs + 1] = TYPE_PTR,
                          !.prog = tac_emit(@, [tac_instr("TAC_WHERE") EXCEPT
                                      !.dst = lhs, !.dst_type = TYPE_PTR]),
                          !.stack = Append(@, lhs)]
    IN  Lowered(v, [p EXCEPT
            !.prog = tac_emit(@, [tac_instr("TAC_SET") EXCEPT
                        !.lhs = lhs, !.rhs = valtmp])])

\* tac_emit_label, tac_emit_jmp, tac_emit_jz
tac_label(label) == [tac_instr("TAC_LABEL") EXCEPT !.imm = label]
tac_jmp(label) == [tac_instr("TAC_JMP") EXCEPT !.imm = label]
tac_jz(cond_temp, label) == [tac_instr("TAC_JZ") EXCEPT !.lhs = cond_temp, !.imm = label]

tac_insert_label_at_idx(s, idx, label) ==
    LET attached ==
            [s EXCEPT !.vm_ip_to_tac_label =
                [i \in DOMAIN @ |->
                    IF s.vm_ip_to_tac_index[i] = idx THEN label ELSE @[i]]]
        inserted ==
            [attached EXCEPT !.prog = tac_insert_at(@, idx, tac_label(label))]
    IN  tac_fix_vm_map_after_insert(inserted, idx)

tac_block_entry(type, start_label, else_label, end_label, cond_vm_ip) ==
    [type |-> type, start_label |-> start_label, else_label |-> else_label,
     end_label |-> end_label, cond_vm_ip |-> cond_vm_ip]

\* func_label has 256 slots and the index is not checked: outside them the
\* write is undefined behaviour
tac_function(v, func_index) ==
    LET s == Entered(v, 2)
        lbl == s.label_counter
    IN  IF func_index \notin 0..255
        THEN [Lowered(v, s) EXCEPT !.status = "undefined"]
        ELSE Lowered(v, [s EXCEPT
                 !.label_counter = lbl + 1,
                 !.func_label[func_index] = lbl,
                 !.prog = tac_emit(@, tac_label(lbl)),
                 !.block_stack = Append(@, tac_block_entry(OP_FUNCTION, lbl, 0, 0, -1))])

tac_call(v, func_index) ==
    LET s == Entered(v, 2)
    IN  IF func_index \notin 0..255
        THEN [Lowered(v, s) EXCEPT !.status = "undefined"]
        ELSE LET seen == s.func_label[func_index]
                 label == IF seen < 0 THEN s.label_counter ELSE seen
                 dst == s.next_temp
             IN  Lowered(v, [s EXCEPT
                     !.label_counter = IF seen < 0 THEN @ + 1 ELSE @,
                     !.func_label[func_index] = label,
                     !.next_temp = dst + 1,
                     !.prog = tac_emit(@, [tac_instr("TAC_CALL") EXCEPT
                                 !.dst = dst, !.imm = label]),
                     !.stack = Append(@, dst)])

\* a Return that sends the dispatch loop back to the start of the code
tac_return_jumping(v) ==
    LET s == Entered(v, 1)
    IN  [Lowered(v, [s EXCEPT !.prog = tac_emit(@, tac_instr("TAC_RET"))]) EXCEPT !.ip = 0]

tac_return(v) ==
    LET s == Entered(v, 1)
    IN  Lowered(v, [s EXCEPT !.prog = tac_emit(@, tac_instr("TAC_RET"))])

\* an If that takes one label for its else and its end
tac_if_one_label(v) ==
    LET s == Entered(v, 1)
        sp == Len(s.stack)
    IN  IF ~(sp >= 1) THEN Aborted(Lowered(v, s))
        ELSE LET else_label == s.label_counter
             IN  Lowered(v, [s EXCEPT
                     !.stack = SubSeq(@, 1, sp - 1),
                     !.label_counter = @ + 1,
                     !.prog = tac_emit(@, tac_jz(s.stack[sp], else_label)),
                     !.block_stack =
                         Append(@, tac_block_entry(OP_IF, 0, else_label, else_label, -1))])

tac_if(v) ==
    LET s == Entered(v, 1)
        sp == Len(s.stack)
    IN  IF ~(sp >= 1) THEN Aborted(Lowered(v, s))
        ELSE LET else_label == s.label_counter
                 end_label == s.label_counter + 1
             IN  Lowered(v, [s EXCEPT
                     !.stack = SubSeq(@, 1, sp - 1),
                     !.label_counter = @ + 2,
                     !.prog = tac_emit(@, tac_jz(s.stack[sp], else_label)),
                     !.block_stack =
                         Append(@, tac_block_entry(OP_IF, 0, else_label, end_label, -1))])

tac_else(v) ==
    LET s == Entered(v, 1)
        block_sp == Len(s.block_stack)
    IN  IF ~(block_sp > 0) THEN Aborted(Lowered(v, s))
        ELSE LET b == s.block_stack[block_sp]
             IN  IF ~(b.type = OP_IF) THEN Aborted(Lowered(v, s))
                 ELSE Lowered(v, [s EXCEPT
                          !.prog = tac_emit(tac_emit(@, tac_jmp(b.end_label)),
                                            tac_label(b.else_label)),
                          !.block_stack[block_sp].type = OP_ELSE])

\* the condition's label goes in front of the instruction that the opcode
\* at cond_ip is mapped to; with no mapping the label is only allocated
tac_while(v, cond_ip) ==
    LET s == Entered(v, 2)
        sp == Len(s.stack)
    IN  IF ~(sp >= 1) THEN Aborted(Lowered(v, s))
        ELSE LET cond == s.stack[sp]
                 in_code == s.vm_code_len # 0 /\ cond_ip >= 0 /\ cond_ip < s.vm_code_len
                 map_idx == IF in_code THEN s.vm_ip_to_tac_index[cond_ip] ELSE -1
                 cond_label == s.label_counter
                 placed ==
                     IF map_idx >= 0
                     THEN tac_insert_label_at_idx(s, map_idx, cond_label)
                     ELSE s
                 end_label == cond_label + 1
                 body_label == cond_label + 2
             IN  Lowered(v, [placed EXCEPT
                     !.stack = SubSeq(@, 1, sp - 1),
                     !.label_counter = cond_label + 3,
                     !.vm_ip_to_tac_label =
                         IF in_code THEN [@ EXCEPT ![cond_ip] = cond_label] ELSE @,
                     !.prog = tac_emit(tac_emit(@, tac_jz(cond, end_label)),
                                       tac_label(body_label)),
                     !.block_stack =
                         Append(@, tac_block_entry(OP_WHILE, cond_label, 0, end_label,
                                                   cond_ip))])

\* the labels attached to vm ips, in ip order: the fallback of tac_endblock
\* takes the first positive one
RECURSIVE FirstAttached(_, _)
FirstAttached(s, i) ==
    IF ~(i < s.vm_code_len) THEN 0
    ELSE IF s.vm_ip_to_tac_label[i] > 0 THEN s.vm_ip_to_tac_label[i]
    ELSE FirstAttached(s, i + 1)

tac_endblock(v) ==
    LET s == Entered(v, 1)
        block_sp == Len(s.block_stack)
    IN  IF ~(block_sp > 0) THEN Aborted(Lowered(v, s))
        ELSE LET b == s.block_stack[block_sp]
                 popped == [s EXCEPT !.block_stack = SubSeq(@, 1, block_sp - 1)]
                 target_label ==
                     IF b.start_label <= 0 THEN FirstAttached(s, 0) ELSE b.start_label
             IN  IF b.type = OP_WHILE
                 THEN IF ~(target_label > 0) THEN Aborted(Lowered(v, popped))
                      ELSE Lowered(v, [popped EXCEPT
                               !.prog = tac_emit(tac_emit(@, tac_jmp(target_label)),
                                                 tac_label(b.end_label))])
                 ELSE IF b.type = OP_IF \/ b.type = OP_ELSE
                 THEN Lowered(v, [popped EXCEPT
                          !.prog = tac_emit(@, tac_label(b.end_label))])
                 ELSE IF b.type = OP_FUNCTION THEN Lowered(v, popped)
                 ELSE Aborted(Lowered(v, popped))

(***************************************************************************)
(* The Horn-clause dump of the IR (tac_dump_write).  The text is modelled  *)
(* as the sequence of the pieces the fprintf calls write: a clause head    *)
(* "l<id> :-\n", a goal, the ",\n  " between two goals, the ".\n" that     *)
(* ends a clause and the "\n" between two clauses.                         *)
(***************************************************************************)
type_tag_name(t) ==
    CASE t = TYPE_I8 -> "i8" [] t = TYPE_U8 -> "u8"
      [] t = TYPE_I16 -> "i16" [] t = TYPE_U16 -> "u16"
      [] t = TYPE_I32 -> "i32" [] t = TYPE_U32 -> "u32"
      [] t = TYPE_I64 -> "i64" [] t = TYPE_U64 -> "u64"
      [] t = TYPE_F32 -> "f32" [] t = TYPE_F64 -> "f64"
      [] t = TYPE_BOOL -> "bool" [] t = TYPE_PTR -> "ptr"
      [] t = TYPE_VOID -> "void" [] OTHER -> "unknown"

\* the digits of n >= 0 in hex, lower case, in at least width places
HexDigit(d) ==
    CASE d < 10 -> Digit(d)
      [] d = 10 -> "a" [] d = 11 -> "b" [] d = 12 -> "c"
      [] d = 13 -> "d" [] d = 14 -> "e" [] d = 15 -> "f"
RECURSIVE HexNat(_, _)
HexNat(n, width) ==
    IF n < 16 /\ width <= 1 THEN HexDigit(n)
    ELSE HexNat(n \div 16, width - 1) \o HexDigit(n % 16)
\* "%08x" of the low 32 bits of the word n: for n < 0 they are 2^31 plus
\* the 31 bits of n - INT_MIN
Hex32(n) ==
    IF n >= 0 THEN HexNat(n, 8)
    ELSE LET u == (n + INT_MAX) + 1
         IN  HexDigit(8 + (u \div 268435456)) \o HexNat(u % 268435456, 7)
\* "%016x" of the 64 bits of the sign-extended word n
Hex64(n) == (IF n >= 0 THEN "00000000" ELSE "ffffffff") \o Hex32(n)

\* the arguments of a goal: a temp t<n>, a label l<n>, a type name, a word
\* in decimal, and for a float constant "0x", the bits of the word in hex
\* and the comment " /* %f */" with the float they are
Temp(n) == [t |-> n]
Lab(n) == [l |-> n]
Ty(name) == [ty |-> name]
Word(n) == [imm |-> n]
Hex(n, width) ==
    [hex |-> "0x" \o (IF width = 32 THEN Hex32(n) ELSE Hex64(n)),
     comment |-> FloatText(IF width = 32 THEN "f32" ELSE "f64", n)]

Goal(functor, args) == [functor |-> functor, args |-> args]

\* the functor that tac_print_goal writes for the three-operand and the
\* two-operand instructions
Functor(op) ==
    CASE op = "TAC_ADD" -> "add" [] op = "TAC_SUB" -> "sub"
      [] op = "TAC_MUL" -> "mul" [] op = "TAC_DIV" -> "div"
      [] op = "TAC_REM" -> "rem" [] op = "TAC_BITAND" -> "bitand"
      [] op = "TAC_BITOR" -> "bitor" [] op = "TAC_BITXOR" -> "bitxor"
      [] op = "TAC_LSH" -> "lsh" [] op = "TAC_LRSH" -> "lrsh"
      [] op = "TAC_ARSH" -> "arsh" [] op = "TAC_OR" -> "or"
      [] op = "TAC_AND" -> "and" [] op = "TAC_NOT" -> "not"
      [] op = "TAC_GEZ" -> "gez"

tac_print_goal(instr) ==
    CASE instr.op = "TAC_CONST" ->
            IF instr.dst_type = TYPE_F32
            THEN Goal("const", <<Temp(instr.dst), Ty("f32"), Hex(instr.imm, 32)>>)
            ELSE IF instr.dst_type = TYPE_F64
            THEN Goal("const", <<Temp(instr.dst), Ty("f64"), Hex(instr.imm, 64)>>)
            ELSE Goal("const", <<Temp(instr.dst), Ty(type_tag_name(instr.dst_type)),
                                 Word(instr.imm)>>)
      [] instr.op \in {"TAC_ADD", "TAC_SUB", "TAC_MUL", "TAC_DIV", "TAC_REM",
                       "TAC_BITAND", "TAC_BITOR", "TAC_BITXOR", "TAC_LSH",
                       "TAC_LRSH", "TAC_ARSH"} ->
            Goal(Functor(instr.op), <<Temp(instr.dst), Ty(type_tag_name(instr.dst_type)),
                                      Temp(instr.lhs), Temp(instr.rhs)>>)
      [] instr.op \in {"TAC_OR", "TAC_AND"} ->
            Goal(Functor(instr.op), <<Temp(instr.dst), Ty("bool"),
                                      Temp(instr.lhs), Temp(instr.rhs)>>)
      [] instr.op \in {"TAC_NOT", "TAC_GEZ"} ->
            Goal(Functor(instr.op), <<Temp(instr.dst), Ty("bool"), Temp(instr.lhs)>>)
      [] instr.op = "TAC_MOVE" -> Goal("move", <<Word(instr.imm)>>)
      [] instr.op = "TAC_LOAD" -> Goal("load", <<Temp(instr.dst)>>)
      [] instr.op = "TAC_STORE" -> Goal("store", <<Temp(instr.lhs)>>)
      [] instr.op = "TAC_PRINT" -> Goal("print", <<Temp(instr.lhs)>>)
      [] instr.op = "TAC_PRINTCHAR" -> Goal("printchar", <<Temp(instr.lhs)>>)
      [] instr.op = "TAC_DEREF" -> Goal("deref", <<Temp(instr.dst), Temp(instr.lhs)>>)
      [] instr.op = "TAC_REFER" -> Goal("refer", <<Temp(instr.dst), Temp(instr.lhs)>>)
      [] instr.op = "TAC_WHERE" -> Goal("where", <<Temp(instr.dst)>>)
      [] instr.op = "TAC_OFFSET" ->
            Goal("offset", <<Temp(instr.dst), Temp(instr.lhs), Word(instr.imm)>>)
      [] instr.op = "TAC_INDEX" ->
            Goal("index", <<Temp(instr.dst), Temp(instr.lhs), Temp(instr.rhs)>>)
      [] instr.op = "TAC_SET" -> Goal("set", <<Temp(instr.lhs), Temp(instr.rhs)>>)
      [] instr.op = "TAC_JMP" -> Goal("jmp", <<Lab(instr.imm)>>)
      [] instr.op = "TAC_JZ" -> Goal("jz", <<Temp(instr.lhs), Lab(instr.imm)>>)
      [] instr.op = "TAC_CALL" ->
            IF instr.dst >= 0 THEN Goal("call", <<Lab(instr.imm), Temp(instr.dst)>>)
            ELSE Goal("call", <<Lab(instr.imm)>>)
      [] instr.op = "TAC_RET" -> Goal("ret", <<>>)
      [] instr.op = "TAC_LABEL" -> Goal("true", <<>>)
      [] OTHER -> Goal("unknown", <<Word(instr.op)>>)

\* what one fprintf of tac_dump_write writes
ClauseHead(label) == [tok |-> "head", label |-> label]
GoalText(goal) == [tok |-> "goal", goal |-> goal]
Comma == [tok |-> "comma"]
Period == [tok |-> "period"]
BlankLine == [tok |-> "blank"]

\* the inner while of tac_dump_write from instruction i (from 0): the goals
\* up to a label, the end, or a Ret, which is closed at once; the result is
\* the i the loop ends with and the text
RECURSIVE MoreGoals(_, _, _)
MoreGoals(t, i, out) ==
    IF i < Len(t) /\ t[i + 1].op # "TAC_LABEL"
    THEN LET printed == out \o <<Comma, GoalText(tac_print_goal(t[i + 1]))>>
         IN  IF t[i + 1].op = "TAC_RET"
             THEN [i |-> i + 1, out |-> Append(printed, Period)]
             ELSE MoreGoals(t, i + 1, printed)
    ELSE [i |-> i, out |-> out]

\* the outer while of tac_dump_write from instruction i with curr_label: the
\* head "l0 :-" of the implicit clause is written if (curr_label != 0)
RECURSIVE DumpFrom(_, _, _, _)
DumpFrom(t, i, curr_label, out) ==
    IF ~(i < Len(t)) THEN out
    ELSE LET is_label == t[i + 1].op = "TAC_LABEL"
             between == IF curr_label # -1 THEN <<BlankLine>> ELSE <<>>
             headed ==
                 IF is_label THEN out \o between \o <<ClauseHead(t[i + 1].imm)>>
                 ELSE IF curr_label # 0
                 THEN out \o between \o <<ClauseHead(0)>>
                 ELSE out
             label == IF is_label THEN t[i + 1].imm ELSE 0
             first == IF is_label THEN i + 1 ELSE i
         IN  IF is_label /\ (first >= Len(t) \/ t[first + 1].op = "TAC_LABEL")
             THEN DumpFrom(t, first, label,
                           headed \o <<GoalText(Goal("true", <<>>)), Period>>)
             ELSE LET one == Append(headed, GoalText(tac_print_goal(t[first + 1])))
                  IN  IF t[first + 1].op = "TAC_RET"
                      THEN DumpFrom(t, first + 1, label, Append(one, Period))
                      ELSE LET more == MoreGoals(t, first + 1, one)
                               at_end == more.i >= Len(t) \/ t[more.i + 1].op = "TAC_LABEL"
                               after_ret == more.i > 0 /\ t[more.i].op = "TAC_RET"
                           IN  DumpFrom(t, more.i, label,
                                        IF at_end /\ ~after_ret
                                        THEN Append(more.out, Period)
                                        ELSE more.out)

tac_dump_write(t) == DumpFrom(t, 0, -1, <<>>)

(***************************************************************************)
(* The textual frontend: the line lexer (src/frontend/lexer/lexer.c) and   *)
(* the parser (src/frontend/parser/parser.c).  A source text, a line and a *)
(* token are strings; character i of s is SubSeq(s, i, i).                 *)
(***************************************************************************)
CharAt(s, i) == SubSeq(s, i, i)

\* isspace in the C locale: space, \t, \n, \v, \f, \r (the vertical tab
\* has no TLA+ escape and stands in its string as the character itself)
IsSpace(c) == c \in {" ", "\t", "\n", "", "\f", "\r"}

\* the first place from p on that holds no white space, or Len(line) + 1
RECURSIVE SkipSpaces(_, _)
SkipSpaces(line, p) ==
    IF p <= Len(line) /\ IsSpace(CharAt(line, p)) THEN SkipSpaces(line, p + 1) ELSE p

lexer_is_comment_line(line) ==
    LET p == SkipSpaces(line, 1)
    IN  IF p > Len(line) THEN FALSE ELSE CharAt(line, p) = "#"

\* the first place from p on that holds white space or '#', or Len(line) + 1
RECURSIVE TokenEnd(_, _)
TokenEnd(line, p) ==
    IF p <= Len(line) /\ ~IsSpace(CharAt(line, p)) /\ CharAt(line, p) # "#"
    THEN TokenEnd(line, p + 1) ELSE p

\* the while (*p) loop of lexer_tokenize_line: -2 at a '#', before or inside
\* a token
RECURSIVE Tokenized(_, _, _)
Tokenized(line, p, tokens) ==
    LET start == SkipSpaces(line, p)
        end == TokenEnd(line, start)
    IN  IF start > Len(line) THEN [ret |-> Len(tokens), tokens |-> tokens]
        ELSE IF end <= Len(line) /\ CharAt(line, end) = "#"
        THEN [ret |-> -2, tokens |-> <<>>]
        ELSE Tokenized(line, end, Append(tokens, SubSeq(line, start, end - 1)))

lexer_tokenize_line(line) ==
    LET q == SkipSpaces(line, 1)
    IN  IF q > Len(line) THEN [ret |-> 0, tokens |-> <<>>]
        ELSE IF CharAt(line, q) = "#" THEN [ret |-> 0, tokens |-> <<>>]
        ELSE Tokenized(line, 1, <<>>)

\* strtok(buf, "\n"): the pieces of src between newlines, empty ones skipped
RECURSIVE SourceLines(_, _, _)
SourceLines(src, p, piece) ==
    IF p > Len(src) THEN (IF piece = "" THEN <<>> ELSE <<piece>>)
    ELSE IF CharAt(src, p) = "\n"
    THEN (IF piece = "" THEN <<>> ELSE <<piece>>) \o SourceLines(src, p + 1, "")
    ELSE SourceLines(src, p + 1, piece \o CharAt(src, p))

\* tolower of the letters
ToLower(c) ==
    CASE c = "A" -> "a" [] c = "B" -> "b" [] c = "C" -> "c" [] c = "D" -> "d"
      [] c = "E" -> "e" [] c = "F" -> "f" [] c = "G" -> "g" [] c = "H" -> "h"
      [] c = "I" -> "i" [] c = "J" -> "j" [] c = "K" -> "k" [] c = "L" -> "l"
      [] c = "M" -> "m" [] c = "N" -> "n" [] c = "O" -> "o" [] c = "P" -> "p"
      [] c = "Q" -> "q" [] c = "R" -> "r" [] c = "S" -> "s" [] c = "T" -> "t"
      [] c = "U" -> "u" [] c = "V" -> "v" [] c = "W" -> "w" [] c = "X" -> "x"
      [] c = "Y" -> "y" [] c = "Z" -> "z" [] OTHER -> c

RECURSIVE lowerdup(_)
lowerdup(s) == IF s = "" THEN "" ELSE ToLower(Head(s)) \o lowerdup(Tail(s))

\* strcasecmp(s, name) == 0
SameWord(s, name) == lowerdup(s) = lowerdup(name)

type_tag_from_str(s) ==
    CASE SameWord(s, "i8") -> TYPE_I8 [] SameWord(s, "u8") -> TYPE_U8
      [] SameWord(s, "i16") -> TYPE_I16 [] SameWord(s, "u16") -> TYPE_U16
      [] SameWord(s, "i32") -> TYPE_I32 [] SameWord(s, "u32") -> TYPE_U32
      [] SameWord(s, "i64") -> TYPE_I64 [] SameWord(s, "u64") -> TYPE_U64
      [] SameWord(s, "f32") -> TYPE_F32 [] SameWord(s, "f64") -> TYPE_F64
      [] SameWord(s, "bool") -> TYPE_BOOL [] SameWord(s, "ptr") -> TYPE_PTR
      [] SameWord(s, "void") -> TYPE_VOID [] OTHER -> TYPE_UNKNOWN

\* the value of a digit of strtoll, 99 for any other character
DigitValue(c) ==
    CASE c = "0" -> 0 [] c = "1" -> 1 [] c = "2" -> 2 [] c = "3" -> 3
      [] c = "4" -> 4 [] c = "5" -> 5 [] c = "6" -> 6 [] c = "7" -> 7
      [] c = "8" -> 8 [] c = "9" -> 9
      [] c \in {"a", "A"} -> 10 [] c \in {"b", "B"} -> 11 [] c \in {"c", "C"} -> 12
      [] c \in {"d", "D"} -> 13 [] c \in {"e", "E"} -> 14 [] c \in {"f", "F"} -> 15
      [] OTHER -> 99

\* the digits of s from p on in the base, appended to the decimal number
\* acc (a sequence of digits, the lowest first, empty for 0); n counts them
RECURSIVE Digits(_, _, _, _, _)
Digits(s, p, base, acc, n) ==
    IF p <= Len(s) /\ DigitValue(CharAt(s, p)) < base
    THEN Digits(s, p + 1, base,
                TimesDigits(acc, base, DigitValue(CharAt(s, p))), n + 1)
    ELSE [val |-> acc, n |-> n]

\* a <= b for two decimal numbers without leading zeros
RECURSIVE DigitsLeqFrom(_, _, _)
DigitsLeqFrom(a, b, k) ==
    IF k = 0 THEN TRUE
    ELSE IF a[k] # b[k] THEN a[k] < b[k]
    ELSE DigitsLeqFrom(a, b, k - 1)
DigitsLeq(a, b) ==
    Len(a) < Len(b) \/ (Len(a) = Len(b) /\ DigitsLeqFrom(a, b, Len(a)))

\* the value of a decimal number that is at most INT_MAX
RECURSIVE NatOfDigits(_)
NatOfDigits(ds) == IF ds = <<>> THEN 0 ELSE Head(ds) + 10 * NatOfDigits(Tail(ds))

\* LLONG_MAX = 2^63 - 1 and 2^63, the largest magnitudes strtoll takes
\* without and with a minus sign, and 2^31
LLONG_MAX_digits == <<7, 0, 8, 5, 7, 7, 4, 5, 8, 6, 3, 0, 2, 7, 3, 3, 2, 2, 9>>
LLONG_MIN_digits == <<8, 0, 8, 5, 7, 7, 4, 5, 8, 6, 3, 0, 2, 7, 3, 3, 2, 2, 9>>
INT_MIN_digits == <<8, 4, 6, 3, 8, 4, 7, 4, 1, 2>>

\* strtoll(s, &end, 0): white space is skipped, then an optional sign, then
\* hex digits after 0x, octal digits after 0, decimal digits otherwise, up
\* to the first character that is none; parse_int64 fails if (end == s),
\* that is if there is no digit, and if strtoll sets errno: the value is
\* outside long long.  A value outside the modelled words is "beyond"
parse_int64(s) ==
    LET q == SkipSpaces(s, 1)
        minus == q <= Len(s) /\ CharAt(s, q) = "-"
        signed == q <= Len(s) /\ CharAt(s, q) \in {"+", "-"}
        p == IF signed THEN q + 1 ELSE q
        hex == /\ p + 2 <= Len(s)
               /\ CharAt(s, p) = "0" /\ CharAt(s, p + 1) \in {"x", "X"}
               /\ DigitValue(CharAt(s, p + 2)) < 16
        octal == ~hex /\ p <= Len(s) /\ CharAt(s, p) = "0"
        r == IF hex THEN Digits(s, p + 2, 16, <<>>, 0)
             ELSE IF octal THEN Digits(s, p, 8, <<>>, 0)
             ELSE Digits(s, p, 10, <<>>, 0)
    IN  IF r.n = 0 THEN [kind |-> "fail", val |-> 0]
        ELSE IF ~DigitsLeq(r.val, IF minus THEN LLONG_MIN_digits ELSE LLONG_MAX_digits)
        THEN [kind |-> "fail", val |-> 0]
        ELSE IF DigitsLeq(r.val, DigitsOf(INT_MAX))
        THEN [kind |-> "val",
              val |-> IF minus THEN -NatOfDigits(r.val) ELSE NatOfDigits(r.val)]
        ELSE IF minus /\ r.val = INT_MIN_digits THEN [kind |-> "val", val |-> INT_MIN]
        ELSE [kind |-> "beyond", val |-> 0]

\* the parser's tables at the start: no code, no label, no function, no
\* pending patch; line, ntok and tokens are the locals of the loop
parser_start(lines) ==
    [status |-> "parsing", lines |-> lines, lineno |-> 0, code |-> <<>>,
     labels |-> <<>>, funcs |-> <<>>, next_index |-> 0, wpatches |-> <<>>,
     line |-> "", ntok |-> 0, tokens |-> <<>>, err |-> ""]

\* a run whose bytecode was built in C has no parser
NoParser == [parser_start(<<>>) EXCEPT !.status = "none"]

\* set_error_msg and goto fail
Failed(ps, msg) == [ps EXCEPT !.status = "error", !.err = msg]

label_table_find(labels, name) == {i \in 1..Len(labels) : labels[i].name = name}

func_table_find(funcs, name) == {i \in 1..Len(funcs) : funcs[i].name = name}

\* the loop over wpatches at a label definition, from entry pi on: a pending
\* While of this label gets the label's position at its imm_pos, and its
\* entry is removed by putting the last entry in its place, which is looked
\* at next (pi--, then the loop's ++pi)
RECURSIVE BackpatchFrom(_, _, _, _, _)
BackpatchFrom(ps, pi, name, pos, write) ==
    LET w == ps.wpatches
        n == Len(w)
    IN  IF pi > n THEN ps
        ELSE IF w[pi].label = name
        THEN BackpatchFrom(
                 [ps EXCEPT
                     !.code[w[pi].imm_pos + 1] = IF write THEN pos ELSE @,
                     !.wpatches = SubSeq([w EXCEPT ![pi] = w[n]], 1, n - 1)],
                 pi, name, pos, write)
        ELSE BackpatchFrom(ps, pi + 1, name, pos, write)

\* a backpatch that leaves the placeholders as they are
Backpatched_nowhere(ps, name, pos) == BackpatchFrom(ps, 1, name, pos, FALSE)

\* every pending While of this label gets the label's position and leaves
\* the table
Backpatched(ps, name, pos) == BackpatchFrom(ps, 1, name, pos, TRUE)

\* label_table_add(&labels, name, code_len, 1) and the backpatch
label_defined(ps, name) ==
    IF \E i \in label_table_find(ps.labels, name) : ps.labels[i].defined
    THEN Failed(ps, "label redefined")
    ELSE Backpatched([ps EXCEPT !.labels =
                        Append(@, [name |-> name, pos |-> Len(ps.code), defined |-> TRUE])],
                     name, Len(ps.code))

\* func_table_mark_defined then func_table_get_or_create
func_defined(ps, name) ==
    LET found == func_table_find(ps.funcs, name)
    IN  IF found = {}
        THEN [ps EXCEPT !.funcs = Append(@, [name |-> name, index |-> ps.next_index,
                                              defined |-> TRUE]),
                        !.next_index = @ + 1]
        ELSE LET i == CHOOSE j \in found : \A k \in found : j <= k
             IN  IF ps.funcs[i].defined THEN Failed(ps, "function redefined")
                 ELSE [ps EXCEPT !.funcs[i].defined = TRUE]

func_table_get_or_create(ps, name) ==
    LET found == func_table_find(ps.funcs, name)
    IN  IF found = {}
        THEN [ps EXCEPT !.funcs = Append(@, [name |-> name, index |-> ps.next_index,
                                              defined |-> FALSE]),
                        !.next_index = @ + 1]
        ELSE ps

func_index(ps, name) ==
    LET found == func_table_find(ps.funcs, name)
    IN  ps.funcs[CHOOSE j \in found : \A k \in found : j <= k].index

EMIT0(ps, op) == [ps EXCEPT !.code = Append(@, op)]
EMIT1(ps, op, x1) == [ps EXCEPT !.code = @ \o <<op, x1>>]
EMIT2(ps, op, x1, x2) == [ps EXCEPT !.code = @ \o <<op, x1, x2>>]

\* the opcode of a keyword whose line emits the opcode alone
KeywordOp(kw) ==
    CASE kw = "add" -> OP_ADD [] kw = "sub" -> OP_SUB [] kw = "mul" -> OP_MUL
      [] kw = "div" -> OP_DIV [] kw = "rem" -> OP_REM [] kw = "load" -> OP_LOAD
      [] kw = "store" -> OP_STORE [] kw = "print" -> OP_PRINT
      [] kw = "deref" -> OP_DEREF [] kw = "refer" -> OP_REFER
      [] kw = "where" -> OP_WHERE [] kw = "index" -> OP_INDEX
      [] kw \in {"ret", "return"} -> OP_RETURN [] kw = "if" -> OP_IF
      [] kw = "else" -> OP_ELSE [] kw = "end" -> OP_ENDBLOCK
      [] kw = "halt" -> OP_HALT [] kw \in {"or", "orassign"} -> OP_ORASSign
      [] kw \in {"and", "andassign"} -> OP_ANDASSign [] kw = "not" -> OP_NOT
      [] kw = "bitand" -> OP_BITAND [] kw = "bitor" -> OP_BITOR
      [] kw = "bitxor" -> OP_BITXOR [] kw = "lsh" -> OP_LSH
      [] kw = "lrsh" -> OP_LRSH [] kw = "arsh" -> OP_ARSH [] kw = "gez" -> OP_GEZ
      [] OTHER -> -1

\* push <type> <imm> and set <type> <imm>.  The float immediates go through
\* strtod, which the model does not compute: such a line is beyond it
typed_immediate(ps, op, tokens) ==
    IF Len(tokens) # 3 THEN Failed(ps, "expects <type> <imm>")
    ELSE LET t == type_tag_from_str(tokens[2])
             imm == parse_int64(tokens[3])
         IN  IF t \in {TYPE_F32, TYPE_F64} \/ imm.kind = "beyond"
             THEN [ps EXCEPT !.status = "beyond"]
             ELSE IF imm.kind = "fail" THEN Failed(ps, "invalid immediate")
             ELSE EMIT2(ps, op, t, imm.val)

\* move <imm> and offset <imm>
one_immediate(ps, op, tokens) ==
    IF Len(tokens) # 2 THEN Failed(ps, "expects an immediate")
    ELSE LET imm == parse_int64(tokens[2])
         IN  IF imm.kind = "beyond" THEN [ps EXCEPT !.status = "beyond"]
             ELSE IF imm.kind = "fail" THEN Failed(ps, "invalid immediate")
             ELSE EMIT1(ps, op, imm.val)

\* while <label>: OP_WHILE and a placeholder 0, filled at once if the label
\* is defined, recorded in wpatches if it is not
while_line(ps, tokens) ==
    IF Len(tokens) # 2 THEN Failed(ps, "while expects: while <label>")
    ELSE LET placeholder_pos == Len(ps.code) + 1
             le == {i \in label_table_find(ps.labels, tokens[2]) : ps.labels[i].defined}
         IN  IF le # {}
             THEN EMIT1(ps, OP_WHILE, ps.labels[CHOOSE i \in le : \A j \in le : i <= j].pos)
             ELSE [EMIT1(ps, OP_WHILE, 0) EXCEPT
                      !.wpatches = Append(@, [label |-> tokens[2],
                                              imm_pos |-> placeholder_pos])]

\* one line of an instruction: the chain of strcasecmp on the first token
instruction_line(ps, tokens) ==
    LET kw == lowerdup(tokens[1])
    IN  IF kw = "push" THEN typed_immediate(ps, OP_PUSH, tokens)
        ELSE IF kw = "set" THEN typed_immediate(ps, OP_SET, tokens)
        ELSE IF kw = "move" THEN one_immediate(ps, OP_MOVE, tokens)
        ELSE IF kw = "offset" THEN one_immediate(ps, OP_OFFSET, tokens)
        ELSE IF kw \in {"printchar", "print_char"} THEN [ps EXCEPT !.status = "beyond"]
        ELSE IF kw = "func"
        THEN IF Len(tokens) # 2 THEN Failed(ps, "func expects: func <name>")
             ELSE LET marked == func_defined(ps, tokens[2])
                  IN  IF marked.status = "error" THEN marked
                      ELSE EMIT1(marked, OP_FUNCTION, func_index(marked, tokens[2]))
        ELSE IF kw = "call"
        THEN IF Len(tokens) # 2 THEN Failed(ps, "call expects: call <name>")
             ELSE LET known == func_table_get_or_create(ps, tokens[2])
                  IN  EMIT1(known, OP_CALL, func_index(known, tokens[2]))
        ELSE IF kw = "while" THEN while_line(ps, tokens)
        ELSE IF kw = "label"
        THEN IF Len(tokens) # 2 THEN Failed(ps, "label expects: label <name>")
             ELSE label_defined(ps, tokens[2])
        ELSE IF KeywordOp(kw) >= 0 THEN EMIT0(ps, KeywordOp(kw))
        ELSE Failed(ps, "unknown keyword")

\* the body of while (line) in parse_rr_string_to_vm for the line at the
\* head of ps.lines
parse_line(ps) ==
    LET raw == Head(ps.lines)
        line == IF raw # "" /\ CharAt(raw, Len(raw)) = "\r"
                THEN SubSeq(raw, 1, Len(raw) - 1) ELSE raw
        lexed == IF lexer_is_comment_line(line) THEN [ret |-> 0, tokens |-> <<>>]
                 ELSE lexer_tokenize_line(line)
        next == [ps EXCEPT !.lines = Tail(@), !.lineno = @ + 1, !.line = line,
                           !.ntok = lexed.ret, !.tokens = lexed.tokens]
        tokens == lexed.tokens
        first == tokens[1]
    IN  IF lexer_is_comment_line(line) THEN next
        ELSE IF lexed.ret < 0 THEN Failed(next, "tokenization error")
        ELSE IF lexed.ret = 0 THEN next
        ELSE IF Len(first) > 1 /\ CharAt(first, Len(first)) = ":"
        THEN IF Len(first) - 1 >= 256 THEN Failed(next, "label name too long")
             ELSE LET added == label_defined(next, SubSeq(first, 1, Len(first) - 1))
                  IN  IF added.status = "error" THEN added
                      ELSE IF lexed.ret > 1
                      THEN Failed(added, "tokens after label on same line are not allowed")
                      ELSE added
        ELSE instruction_line(next, tokens)

\* after the last line: a While whose label was never defined and a function
\* that was called and never defined are errors; else the code is handed over
\* the loop over what is left in wpatches, from entry i on: the first entry
\* whose label is not defined fails the parse and is named in the message
RECURSIVE FinalBackpatch(_, _)
FinalBackpatch(ps, i) ==
    IF i > Len(ps.wpatches) THEN ps
    ELSE LET wp == ps.wpatches[i]
             le == {k \in label_table_find(ps.labels, wp.label) : ps.labels[k].defined}
         IN  IF le = {}
             THEN Failed(ps, "undefined label referenced by while: '" \o wp.label \o "'")
             ELSE FinalBackpatch(
                      [ps EXCEPT !.code[wp.imm_pos + 1] =
                          ps.labels[CHOOSE k \in le : \A j \in le : k <= j].pos],
                      i + 1)

parse_end(ps) ==
    LET patched == FinalBackpatch(ps, 1)
    IN  IF patched.status = "error" THEN patched
        ELSE IF \E i \in 1..Len(patched.funcs) : ~patched.funcs[i].defined
        THEN Failed(patched, "undefined function referenced")
        ELSE [patched EXCEPT !.status = "done"]

\* the texts that are parsed: one line with or without a comment, and up to
\* MaxSourceLines lines of labels, loops and functions
MaxSourceLines == 3

CommentSources ==
    {"halt", "halt # stop", "halt #", "  # all", "#", "# halt", "halt#x", "#halt #",
     "push i64 1 # one", "push i64 1", "\thalt", "\t# tab", "load  store # two",
     "L: # here", "while L # loop", "HALT\r", "halt # stop\r", "", "  ", "\n\nhalt\n"}

ImmediateSources ==
    {"push i64 0x1F", "push u8 -7", "push i64 017", "push i64 12abc", "push i64 abc",
     "push i64 +5", "push i64 0x", "push nosuch 3", "push i64", "move -2", "move",
     "offset 3", "set PTR 08", "push i64 4294967296", "frob", "halt halt", "Ret",
     "push f64 1.5"}

SourceLineSet ==
    {"L:", "label M", "while L", "while M", "load", "end", "func f", "call f"}

RECURSIVE TextsOfLines(_)
TextsOfLines(n) ==
    IF n = 0 THEN {""}
    ELSE {l \o "\n" \o t : l \in SourceLineSet, t \in TextsOfLines(n - 1)}

\* loops on three labels that are still to come when the first of them is
\* defined: the order of the patches that stay pending shows in the label
\* that the failing parse names
PatchOrderSources ==
    {"while L\nwhile M\nwhile N\nL:\n",
     "while L\nwhile M\nwhile N\nL:\nN:\n",
     "while L\nwhile M\nwhile N\nL:\nN:\nlabel M\n",
     "while L\nwhile L\nwhile M\nwhile N\nlabel L\n",
     "while M\nwhile L\nwhile N\nwhile L\nL:\nM:\n"}

Sources ==
    CommentSources \cup ImmediateSources \cup PatchOrderSources
    \cup UNION {TextsOfLines(n) : n \in 1..MaxSourceLines}

(***************************************************************************)
(* State.  vm is the struct VM with the run's status and output; g_calls   *)
(* and g_derefs are history: what the machine looked like at each Call and *)
(* each Deref that has not yet been returned from or referred back.        *)
(* backend is the Backend table run_vm was given; g_emitted is history for *)
(* a lowering run: for each instruction of the IR, the ip of the opcode    *)
(* whose hook produced it and its rank among those the hook appended (0 for*)
(* a label the hook inserted retroactively); g_loops, for each While that  *)
(* was lowered, its ip and what its hook left in the block entry it pushed.*)
(* parser is the state of parse_rr_string_to_vm when the bytecode comes    *)
(* from a source text; g_whiles is history: the label and the immediate's  *)
(* place of each while line that was parsed.                               *)
(***************************************************************************)
VARIABLES vm, g_calls, g_derefs, backend, g_emitted, g_loops, g_first, g_prev, parser, g_whiles
vars == <<vm, g_calls, g_derefs, backend, g_emitted, g_loops, g_first, g_prev,
          parser, g_whiles>>

\* the opcodes whose case calls a hook (Nop and Halt have none)
HookOps == (OP_NOP..OP_HALT) \ {OP_NOP, OP_HALT}

\* a Backend table: ops are the opcodes whose hook is not NULL, fns whose
\* functions they are, finalize whether .finalize is set (.setup is set
\* with it), op_print_char whether the table names a hook for printing a
\* character.  INTERPRETER is __INTERPRETER (inter_setup, inter_finalize)
\* and TAC is __TAC (tac_setup, tac_finalize, tac_print_char), which fill
\* every hook; ARITHMETIC is INTERPRETER_BACKEND, which fills six hooks
\* with functions of its own; NO_HOOKS is a table of NULLs (or a NULL
\* backend: every case tests backend first).
INTERPRETER ==
    [fns |-> "interp", ops |-> HookOps, finalize |-> TRUE, op_print_char |-> FALSE]
TAC ==
    [fns |-> "tac", ops |-> HookOps, finalize |-> TRUE, op_print_char |-> TRUE]
ARITHMETIC ==
    [fns |-> "arith", ops |-> {OP_PUSH, OP_ADD, OP_SUB, OP_MUL, OP_DIV, OP_PRINT},
     finalize |-> FALSE, op_print_char |-> FALSE]
NO_HOOKS ==
    [fns |-> "interp", ops |-> {}, finalize |-> FALSE, op_print_char |-> FALSE]

\* a loop that calls a hook without looking whether the table has one
Hooked_always(op) == TRUE

\* if (backend && backend->op_x)
Hooked(op) == op \in backend.ops
ByTac == backend.fns = "tac"
ByArith == backend.fns = "arith"

\* user_data when no backend has set it: NULL
NoUserData == [prog |-> <<>>]

\* tac_finalize frees the IR, the maps and the state
tac_finalize(v) == [v EXCEPT !.user_data = NoUserData]

\* the VM as run_vm has reset it, about to fetch its first opcode
InitVM(code) ==
    [code |-> code, code_len |-> Len(code), ip |-> 0,
     stack |-> [i \in 0..(STACK_SIZE - 1) |-> 0], sp |-> 0,
     types |-> [i \in 0..(STACK_SIZE - 1) |-> TYPE_UNKNOWN],
     tape |-> [i \in 0..(TAPE_SIZE - 1) |-> 0],
     tape_types |-> [i \in 0..(TAPE_SIZE - 1) |-> TYPE_UNKNOWN],
     tp |-> 0,
     tp_stack |-> [i \in 0..(TAPE_SIZE - 1) |-> 0], tp_sp |-> 0,
     functions |-> [i \in 0..(FUNCTIONS_SIZE - 1) |-> UNINIT], functions_count |-> 0,
     call_stack |-> [i \in 0..(CALL_STACK_SIZE - 1) |-> [return_ip |-> 0, old_fp |-> 0]],
     call_sp |-> 0, fp |-> 0,
     block_stack |-> [i \in 0..(BLOCK_STACK_SIZE - 1) |-> [type |-> OP_NOP, ip |-> 0]],
     block_sp |-> 0,
     user_data |-> NoUserData,
     status |-> "running", out |-> <<>>, file |-> <<>>]

\* backend->setup(vm), then the reset
Started(b, code) ==
    IF b.fns = "tac"
    THEN [InitVM(code) EXCEPT !.user_data = tac_setup(Len(code))]
    ELSE InitVM(code)

\* run_vm called again on a VM that has run: backend->setup(vm) makes a new
\* backend state, and the reset clears what it clears and leaves the rest
\* (the stacks' cells, the function table) as the last run left it
Restarted_without_setup(v, b) ==
    [v EXCEPT !.ip = 0, !.sp = 0, !.tp = 0, !.tp_sp = 0, !.call_sp = 0,
              !.fp = 0, !.functions_count = 0, !.block_sp = 0,
              !.tape = [i \in 0..(TAPE_SIZE - 1) |-> 0],
              !.types = [i \in 0..(STACK_SIZE - 1) |-> TYPE_UNKNOWN],
              !.tape_types = [i \in 0..(TAPE_SIZE - 1) |-> TYPE_UNKNOWN],
              !.status = "running"]

Restarted(v, b) ==
    [Restarted_without_setup(v, b) EXCEPT
        !.user_data = IF b.fns = "tac" THEN tac_setup(v.code_len) ELSE @]

\* history of the last step: the ip and the sp it started from, and the
\* value and the tag that were on top of the data stack then; n counts the
\* opcodes that the dispatch loop has fetched in a lowering run
NoStep == [ip |-> -1, sp |-> 0, top |-> 0, tag |-> TYPE_UNKNOWN, n |-> 0]
StepFrom(v) ==
    [ip |-> v.ip, sp |-> v.sp,
     top |-> IF v.sp > 0 /\ v.sp <= STACK_SIZE THEN v.stack[v.sp - 1] ELSE 0,
     tag |-> IF v.sp > 0 /\ v.sp <= STACK_SIZE THEN v.types[v.sp - 1] ELSE TYPE_UNKNOWN,
     n |-> 0]

Runs ==
    {<<INTERPRETER, code>> : code \in Programs}
    \cup {<<TAC, code>> : code \in TacPrograms}
    \cup {<<b, code>> : b \in {ARITHMETIC, NO_HOOKS}, code \in HookPrograms}

Init ==
    /\ \E r \in Runs : backend = r[1] /\ vm = Started(r[1], r[2])
    /\ g_calls = <<>>
    /\ g_derefs = <<>>
    /\ g_emitted = <<>>
    /\ g_loops = {}
    /\ g_first = [ran |-> FALSE, prog |-> <<>>]
    /\ g_prev = NoStep
    /\ parser = NoParser
    /\ g_whiles = <<>>

(***************************************************************************)
(* The dispatch loop (run_vm, src/vm/vm.h): one action per case of its     *)
(* switch.  Each reads the opcode at ip, asserts that its immediates are   *)
(* there, reads them, and calls the backend's hook if the table has one.   *)
(***************************************************************************)
\* the loop is at the opcode op
AtOp(op) ==
    /\ vm.status = "running"
    /\ ULess(vm.ip, vm.code_len)
    /\ vm.code[vm.ip + 1] = op

\* the k-th word after the opcode
Imm(k) == vm.code[vm.ip + 1 + k]

\* ip moved past the opcode and k immediates
Decoded(v, k) == [v EXCEPT !.ip = v.ip + 1 + k]

\* the assert of two immediates, asking for a third word
HasImm2_three_words == vm.ip + 3 < vm.code_len

\* assert(vm->ip < vm->code_len) after the opcode: one immediate is there;
\* assert(vm->ip + 1 < vm->code_len): two are
HasImm1 == vm.ip + 1 < vm.code_len
HasImm2 == vm.ip + 2 < vm.code_len

NoHistory == UNCHANGED <<g_calls, g_derefs>>

\* the words that two sequences share at their start
RECURSIVE CommonPrefix(_, _, _)
CommonPrefix(a, b, n) ==
    IF n < Len(a) /\ n < Len(b) /\ a[n + 1] = b[n + 1]
    THEN CommonPrefix(a, b, n + 1) ELSE n

\* history of a lowering step at the opcode at v.ip that took the IR from
\* v's to w's: the hook of While grows the IR by three when it has inserted
\* the condition's label (by two when it has not), and the label is the
\* first instruction that differs
EmittedBy(v, w, g) ==
    LET old == v.user_data.prog
        new == w.user_data.prog
        grown == Len(new) - Len(old)
        at == CommonPrefix(old, new, 0)
        appended(k) == [j \in 1..k |-> [ip |-> v.ip, nth |-> j]]
    IN  IF grown = 0 THEN g
        ELSE IF v.code[v.ip + 1] = OP_WHILE /\ grown = 3
        THEN SubSeq(g, 1, at) \o <<[ip |-> v.ip, nth |-> 0]>>
             \o SubSeq(g, at + 1, Len(g)) \o appended(2)
        ELSE g \o appended(grown)

\* history of the While at v.ip whose hook pushed a block entry: the labels
\* and the cond_vm_ip that the entry holds
LoopOf(v, w) ==
    LET b == w.user_data.block_stack[Len(w.user_data.block_stack)]
    IN  [while_ip |-> v.ip, cond_vm_ip |-> b.cond_vm_ip,
         cond_label |-> b.start_label, end_label |-> b.end_label]

\* the table does not change during a run
Traced ==
    /\ UNCHANGED <<backend, g_first, parser, g_whiles>>
    /\ g_prev' = [StepFrom(vm) EXCEPT
                     !.n = IF ByTac /\ vm.status = "running" /\ ULess(vm.ip, vm.code_len)
                           THEN g_prev.n + 1 ELSE g_prev.n]
    /\ g_emitted' = IF ByTac THEN EmittedBy(vm, vm', g_emitted) ELSE g_emitted
    /\ g_loops' = IF /\ ByTac /\ AtOp(OP_WHILE)
                     /\ Len(vm'.user_data.block_stack) > Len(vm.user_data.block_stack)
                  THEN g_loops \cup {LoopOf(vm, vm')}
                  ELSE g_loops

Case_OP_NOP == AtOp(OP_NOP) /\ vm' = Decoded(vm, 0) /\ NoHistory /\ Traced

Case_OP_PUSH ==
    /\ AtOp(OP_PUSH)
    /\ vm' \in IF ~HasImm2 THEN {Aborted(Decoded(vm, 0))}
               ELSE IF ~Hooked(OP_PUSH) THEN {Decoded(vm, 2)}
               ELSE IF ByTac THEN {tac_push(Decoded(vm, 2), Imm(1), Imm(2))}
               ELSE IF ByArith THEN arith_push(Decoded(vm, 2), Imm(1), Imm(2))
               ELSE {interp_push(Decoded(vm, 2), Imm(1), Imm(2))}
    /\ NoHistory
    /\ Traced

Case_OP_SET ==
    /\ AtOp(OP_SET)
    /\ vm' \in IF ~HasImm2 THEN {Aborted(Decoded(vm, 0))}
               ELSE IF ~Hooked(OP_SET) THEN {Decoded(vm, 2)}
               ELSE IF ByTac THEN {tac_set(Decoded(vm, 2), Imm(1), Imm(2))}
               ELSE interp_set(Decoded(vm, 2), Imm(1), Imm(2))
    /\ NoHistory
    /\ Traced

Case_OP_MOVE ==
    /\ AtOp(OP_MOVE)
    /\ vm' = IF ~HasImm1 THEN Aborted(Decoded(vm, 0))
             ELSE IF ~Hooked(OP_MOVE) THEN Decoded(vm, 1)
             ELSE IF ByTac THEN tac_move(Decoded(vm, 1), Imm(1))
             ELSE interp_move(Decoded(vm, 1), Imm(1))
    /\ NoHistory
    /\ Traced

Case_OP_OFFSET ==
    /\ AtOp(OP_OFFSET)
    /\ vm' = IF ~HasImm1 THEN Aborted(Decoded(vm, 0))
             ELSE IF ~Hooked(OP_OFFSET) THEN Decoded(vm, 1)
             ELSE IF ByTac THEN tac_unary(Decoded(vm, 1), 2, "TAC_OFFSET", Imm(1))
             ELSE interp_offset(Decoded(vm, 1), Imm(1))
    /\ NoHistory
    /\ Traced

Case_OP_FUNCTION ==
    /\ AtOp(OP_FUNCTION)
    /\ vm' = IF ~HasImm1 THEN Aborted(Decoded(vm, 0))
             ELSE IF ~Hooked(OP_FUNCTION) THEN Decoded(vm, 1)
             ELSE IF ByTac THEN tac_function(Decoded(vm, 1), Imm(1))
             ELSE interp_function(Decoded(vm, 1), Imm(1))
    /\ NoHistory
    /\ Traced

Case_OP_WHILE ==
    /\ AtOp(OP_WHILE)
    /\ vm' = IF ~HasImm1 THEN Aborted(Decoded(vm, 0))
             ELSE IF ~Hooked(OP_WHILE) THEN Decoded(vm, 1)
             ELSE IF ByTac THEN tac_while(Decoded(vm, 1), Imm(1))
             ELSE interp_while(Decoded(vm, 1), Imm(1))
    /\ NoHistory
    /\ Traced

Case_OP_STORE ==
    /\ AtOp(OP_STORE)
    /\ vm' \in IF ~Hooked(OP_STORE) THEN {Decoded(vm, 0)}
               ELSE IF ByTac THEN {tac_store(Decoded(vm, 0), "TAC_STORE", -1)}
               ELSE interp_store(Decoded(vm, 0))
    /\ NoHistory
    /\ Traced

\* history: the caller's sp, fp and call_sp at the Call, and the word after
\* the Call's immediate
Case_OP_CALL ==
    /\ AtOp(OP_CALL)
    /\ vm' \in IF ~HasImm1 THEN {Aborted(Decoded(vm, 0))}
               ELSE IF ~Hooked(OP_CALL) THEN {Decoded(vm, 1)}
               ELSE IF ByTac THEN {tac_call(Decoded(vm, 1), Imm(1))}
               ELSE interp_call(Decoded(vm, 1), Imm(1))
    /\ g_calls' = IF Hooked(OP_CALL) /\ ~ByTac /\ HasImm1 /\ vm'.status = "running"
                  THEN Append(g_calls, [sp |-> vm.sp, fp |-> vm.fp,
                                        call_sp |-> vm.call_sp, next |-> vm.ip + 2])
                  ELSE g_calls
    /\ UNCHANGED g_derefs
    /\ Traced

Case_OP_RETURN ==
    /\ AtOp(OP_RETURN)
    /\ vm' = IF ~Hooked(OP_RETURN) THEN Decoded(vm, 0)
             ELSE IF ByTac THEN tac_return(Decoded(vm, 0))
             ELSE interp_return(Decoded(vm, 0))
    /\ g_calls' = IF vm.call_sp > 0 /\ g_calls # <<>>
                  THEN SubSeq(g_calls, 1, Len(g_calls) - 1)
                  ELSE g_calls
    /\ UNCHANGED g_derefs
    /\ Traced

\* history: tp and tp_sp before the Deref
Case_OP_DEREF ==
    /\ AtOp(OP_DEREF)
    /\ vm' = IF ~Hooked(OP_DEREF) THEN Decoded(vm, 0)
             ELSE IF ByTac THEN tac_unary(Decoded(vm, 0), 1, "TAC_DEREF", 0)
             ELSE interp_deref(Decoded(vm, 0))
    /\ g_derefs' = IF Hooked(OP_DEREF) /\ ~ByTac /\ vm'.status = "running"
                   THEN Append(g_derefs, [tp |-> vm.tp, tp_sp |-> vm.tp_sp])
                   ELSE g_derefs
    /\ UNCHANGED g_calls
    /\ Traced

Case_OP_REFER ==
    /\ AtOp(OP_REFER)
    /\ vm' = IF ~Hooked(OP_REFER) THEN Decoded(vm, 0)
             ELSE IF ByTac THEN tac_unary(Decoded(vm, 0), 1, "TAC_REFER", 0)
             ELSE interp_refer(Decoded(vm, 0))
    /\ g_derefs' = IF vm'.status = "running" /\ g_derefs # <<>>
                   THEN SubSeq(g_derefs, 1, Len(g_derefs) - 1)
                   ELSE g_derefs
    /\ UNCHANGED g_calls
    /\ Traced

\* case OP_HALT: return
Case_OP_HALT ==
    /\ AtOp(OP_HALT)
    /\ vm' = [Decoded(vm, 0) EXCEPT !.status = "halted"]
    /\ NoHistory
    /\ Traced

\* default: fprintf(stderr, ...); exit(1)
Case_default ==
    /\ vm.status = "running"
    /\ ULess(vm.ip, vm.code_len)
    /\ ~(vm.code[vm.ip + 1] >= OP_NOP /\ vm.code[vm.ip + 1] <= OP_HALT)
    /\ vm' = Aborted(Decoded(vm, 0))
    /\ NoHistory
    /\ Traced

\* while (vm->ip < vm->code_len) is false: run_vm returns
EndOfCode ==
    /\ vm.status = "running"
    /\ ~ULess(vm.ip, vm.code_len)
    /\ vm' = [vm EXCEPT !.status = "ended"]
    /\ NoHistory
    /\ Traced

Case_OP_ADD ==
    /\ AtOp(OP_ADD)
    /\ vm' = IF ~Hooked(OP_ADD) THEN Decoded(vm, 0)
             ELSE IF ByTac THEN tac_binary(Decoded(vm, 0), "TAC_ADD")
             ELSE IF ByArith THEN arith_binary(Decoded(vm, 0), "add_fn")
             ELSE interp_add(Decoded(vm, 0))
    /\ NoHistory
    /\ Traced

Case_OP_SUB ==
    /\ AtOp(OP_SUB)
    /\ vm' = IF ~Hooked(OP_SUB) THEN Decoded(vm, 0)
             ELSE IF ByTac THEN tac_binary(Decoded(vm, 0), "TAC_SUB")
             ELSE IF ByArith THEN arith_binary(Decoded(vm, 0), "sub_fn")
             ELSE interp_sub(Decoded(vm, 0))
    /\ NoHistory
    /\ Traced

Case_OP_MUL ==
    /\ AtOp(OP_MUL)
    /\ vm' = IF ~Hooked(OP_MUL) THEN Decoded(vm, 0)
             ELSE IF ByTac THEN tac_binary(Decoded(vm, 0), "TAC_MUL")
             ELSE IF ByArith THEN arith_binary(Decoded(vm, 0), "mul_fn")
             ELSE interp_mul(Decoded(vm, 0))
    /\ NoHistory
    /\ Traced

Case_OP_DIV ==
    /\ AtOp(OP_DIV)
    /\ vm' = IF ~Hooked(OP_DIV) THEN Decoded(vm, 0)
             ELSE IF ByTac THEN tac_binary(Decoded(vm, 0), "TAC_DIV")
             ELSE IF ByArith THEN arith_binary(Decoded(vm, 0), "div_fn")
             ELSE interp_div(Decoded(vm, 0))
    /\ NoHistory
    /\ Traced

Case_OP_REM ==
    /\ AtOp(OP_REM)
    /\ vm' = IF ~Hooked(OP_REM) THEN Decoded(vm, 0)
             ELSE IF ByTac THEN tac_binary(Decoded(vm, 0), "TAC_REM")
             ELSE interp_rem(Decoded(vm, 0))
    /\ NoHistory
    /\ Traced

Case_OP_LOAD ==
    /\ AtOp(OP_LOAD)
    /\ vm' = IF ~Hooked(OP_LOAD) THEN Decoded(vm, 0)
             ELSE IF ByTac THEN tac_load(Decoded(vm, 0), "TAC_LOAD")
             ELSE interp_load(Decoded(vm, 0))
    /\ NoHistory
    /\ Traced

Case_OP_PRINT ==
    /\ AtOp(OP_PRINT)
    /\ vm' = IF ~Hooked(OP_PRINT) THEN Decoded(vm, 0)
             ELSE IF ByTac THEN tac_store(Decoded(vm, 0), "TAC_PRINT", 0)
             ELSE IF ByArith THEN arith_print(Decoded(vm, 0))
             ELSE interp_print(Decoded(vm, 0))
    /\ NoHistory
    /\ Traced

Case_OP_WHERE ==
    /\ AtOp(OP_WHERE)
    /\ vm' = IF ~Hooked(OP_WHERE) THEN Decoded(vm, 0)
             ELSE IF ByTac THEN tac_load(Decoded(vm, 0), "TAC_WHERE")
             ELSE interp_where(Decoded(vm, 0))
    /\ NoHistory
    /\ Traced

Case_OP_INDEX ==
    /\ AtOp(OP_INDEX)
    /\ vm' = IF ~Hooked(OP_INDEX) THEN Decoded(vm, 0)
             ELSE IF ByTac THEN tac_index(Decoded(vm, 0))
             ELSE interp_index(Decoded(vm, 0))
    /\ NoHistory
    /\ Traced

Case_OP_IF ==
    /\ AtOp(OP_IF)
    /\ vm' = IF ~Hooked(OP_IF) THEN Decoded(vm, 0)
             ELSE IF ByTac THEN tac_if(Decoded(vm, 0))
             ELSE interp_if(Decoded(vm, 0))
    /\ NoHistory
    /\ Traced

Case_OP_ELSE ==
    /\ AtOp(OP_ELSE)
    /\ vm' = IF ~Hooked(OP_ELSE) THEN Decoded(vm, 0)
             ELSE IF ByTac THEN tac_else(Decoded(vm, 0))
             ELSE interp_else(Decoded(vm, 0))
    /\ NoHistory
    /\ Traced

Case_OP_ENDBLOCK ==
    /\ AtOp(OP_ENDBLOCK)
    /\ vm' = IF ~Hooked(OP_ENDBLOCK) THEN Decoded(vm, 0)
             ELSE IF ByTac THEN tac_endblock(Decoded(vm, 0))
             ELSE interp_endblock(Decoded(vm, 0))
    /\ NoHistory
    /\ Traced

Case_OP_ORASSign ==
    /\ AtOp(OP_ORASSign)
    /\ vm' = IF ~Hooked(OP_ORASSign) THEN Decoded(vm, 0)
             ELSE IF ByTac THEN tac_binary(Decoded(vm, 0), "TAC_OR")
             ELSE interp_orassign(Decoded(vm, 0))
    /\ NoHistory
    /\ Traced

Case_OP_ANDASSign ==
    /\ AtOp(OP_ANDASSign)
    /\ vm' = IF ~Hooked(OP_ANDASSign) THEN Decoded(vm, 0)
             ELSE IF ByTac THEN tac_binary(Decoded(vm, 0), "TAC_AND")
             ELSE interp_andassign(Decoded(vm, 0))
    /\ NoHistory
    /\ Traced

Case_OP_NOT ==
    /\ AtOp(OP_NOT)
    /\ vm' = IF ~Hooked(OP_NOT) THEN Decoded(vm, 0)
             ELSE IF ByTac THEN tac_unary(Decoded(vm, 0), 1, "TAC_NOT", 0)
             ELSE interp_not(Decoded(vm, 0))
    /\ NoHistory
    /\ Traced

Case_OP_BITAND ==
    /\ AtOp(OP_BITAND)
    /\ vm' = IF ~Hooked(OP_BITAND) THEN Decoded(vm, 0)
             ELSE IF ByTac THEN tac_binary(Decoded(vm, 0), "TAC_BITAND")
             ELSE interp_bitand(Decoded(vm, 0))
    /\ NoHistory
    /\ Traced

Case_OP_BITOR ==
    /\ AtOp(OP_BITOR)
    /\ vm' = IF ~Hooked(OP_BITOR) THEN Decoded(vm, 0)
             ELSE IF ByTac THEN tac_binary(Decoded(vm, 0), "TAC_BITOR")
             ELSE interp_bitor(Decoded(vm, 0))
    /\ NoHistory
    /\ Traced

Case_OP_BITXOR ==
    /\ AtOp(OP_BITXOR)
    /\ vm' = IF ~Hooked(OP_BITXOR) THEN Decoded(vm, 0)
             ELSE IF ByTac THEN tac_binary(Decoded(vm, 0), "TAC_BITXOR")
             ELSE interp_bitxor(Decoded(vm, 0))
    /\ NoHistory
    /\ Traced

Case_OP_LSH ==
    /\ AtOp(OP_LSH)
    /\ vm' = IF ~Hooked(OP_LSH) THEN Decoded(vm, 0)
             ELSE IF ByTac THEN tac_binary(Decoded(vm, 0), "TAC_LSH")
             ELSE interp_lsh(Decoded(vm, 0))
    /\ NoHistory
    /\ Traced

Case_OP_LRSH ==
    /\ AtOp(OP_LRSH)
    /\ vm' = IF ~Hooked(OP_LRSH) THEN Decoded(vm, 0)
             ELSE IF ByTac THEN tac_binary(Decoded(vm, 0), "TAC_LRSH")
             ELSE interp_lrsh(Decoded(vm, 0))
    /\ NoHistory
    /\ Traced

Case_OP_ARSH ==
    /\ AtOp(OP_ARSH)
    /\ vm' = IF ~Hooked(OP_ARSH) THEN Decoded(vm, 0)
             ELSE IF ByTac THEN tac_binary(Decoded(vm, 0), "TAC_ARSH")
             ELSE interp_arsh(Decoded(vm, 0))
    /\ NoHistory
    /\ Traced

Case_OP_GEZ ==
    /\ AtOp(OP_GEZ)
    /\ vm' = IF ~Hooked(OP_GEZ) THEN Decoded(vm, 0)
             ELSE IF ByTac THEN tac_unary(Decoded(vm, 0), 1, "TAC_GEZ", 0)
             ELSE interp_gez(Decoded(vm, 0))
    /\ NoHistory
    /\ Traced

\* a VM whose memory that run_vm does not reset (the cells of the stacks and
\* the function table) holds other values: VM vm_parsed of main is an
\* automatic variable that nothing initialises, and a VM that is run again
\* holds what its last run left
OtherMemory(v) ==
    [v EXCEPT
        !.stack = [i \in DOMAIN @ |-> 7],
        !.tp_stack = [i \in DOMAIN @ |-> 3],
        !.functions = [i \in DOMAIN @ |-> 5],
        !.call_stack = [i \in DOMAIN @ |-> [return_ip |-> 9, old_fp |-> 1]],
        !.block_stack = [i \in DOMAIN @ |-> [type |-> OP_WHILE, ip |-> 2]]]

\* the same bytecode is lowered a second time once the first run has
\* returned, by run_vm on a VM that holds what the first run left or other
\* values in the memory run_vm does not reset; history: the IR of the first
\* run.  src/main.c calls run_vm once: the second run is that of a caller
\* of run_vm (src/vm/vm.h) that lowers twice, or of main run twice
RunAgain ==
    /\ ByTac
    /\ vm.status \in {"halted", "ended"}
    /\ ~g_first.ran
    /\ vm' \in {Restarted(vm, backend), OtherMemory(Restarted(vm, backend))}
    /\ g_first' = [ran |-> TRUE, prog |-> vm.user_data.prog]
    /\ g_emitted' = <<>>
    /\ g_loops' = {}
    /\ g_prev' = NoStep
    /\ UNCHANGED <<backend, g_calls, g_derefs, parser, g_whiles>>

\* main: after run_vm has returned under --tac, tac_dump(prog) writes the
\* clauses to stdout
tac_dump ==
    /\ ByTac
    /\ vm.status \in {"halted", "ended"}
    /\ vm' = [vm EXCEPT !.status = "dumped",
                        !.out = @ \o tac_dump_write(vm.user_data.prog)]
    /\ NoHistory
    /\ Traced

\* main: tac_dump_file(prog, "opt/tmp/parsed.pl") then writes the same
\* clauses to the file opt/tmp/raw/parsed.pl, which fopen(path, "w") makes
\* empty first; if fopen fails nothing is written
tac_dump_file ==
    /\ ByTac
    /\ vm.status = "dumped"
    /\ \E opened \in BOOLEAN :
          vm' = [vm EXCEPT !.status = "filed",
                           !.file = IF opened THEN tac_dump_write(vm.user_data.prog)
                                    ELSE @]
    /\ NoHistory
    /\ Traced

\* main: if (backend && backend->finalize) backend->finalize(&vm_parsed, 0),
\* once run_vm has returned and, under --tac, the clauses are written.
\* inter_finalize does nothing
finalize ==
    /\ backend.finalize
    /\ vm.status \in IF ByTac THEN {"filed"} ELSE {"halted", "ended"}
    /\ vm' = [(IF ByTac THEN tac_finalize(vm) ELSE vm) EXCEPT !.status = "finalized"]
    /\ UNCHANGED <<backend, g_calls, g_derefs, g_emitted, g_loops, g_first,
                   g_prev, parser, g_whiles>>

\* main: parser_free_vm_code(&vm_parsed) frees the bytecode
parser_free_vm_code ==
    /\ vm.status = "finalized"
    /\ vm' = [vm EXCEPT !.code = <<>>, !.code_len = 0, !.status = "freed"]
    /\ UNCHANGED <<backend, g_calls, g_derefs, g_emitted, g_loops, g_first,
                   g_prev, parser, g_whiles>>

Next ==
    \/ Case_OP_NOP
    \/ Case_OP_PUSH
    \/ Case_OP_ADD
    \/ Case_OP_SUB
    \/ Case_OP_MUL
    \/ Case_OP_DIV
    \/ Case_OP_REM
    \/ Case_OP_MOVE
    \/ Case_OP_LOAD
    \/ Case_OP_STORE
    \/ Case_OP_PRINT
    \/ Case_OP_DEREF
    \/ Case_OP_REFER
    \/ Case_OP_WHERE
    \/ Case_OP_OFFSET
    \/ Case_OP_INDEX
    \/ Case_OP_SET
    \/ Case_OP_FUNCTION
    \/ Case_OP_CALL
    \/ Case_OP_RETURN
    \/ Case_OP_WHILE
    \/ Case_OP_IF
    \/ Case_OP_ELSE
    \/ Case_OP_ENDBLOCK
    \/ Case_OP_ORASSign
    \/ Case_OP_ANDASSign
    \/ Case_OP_NOT
    \/ Case_OP_BITAND
    \/ Case_OP_BITOR
    \/ Case_OP_BITXOR
    \/ Case_OP_LSH
    \/ Case_OP_LRSH
    \/ Case_OP_ARSH
    \/ Case_OP_GEZ
    \/ Case_OP_HALT
    \/ Case_default
    \/ EndOfCode
    \/ RunAgain
    \/ tac_dump
    \/ tac_dump_file
    \/ finalize
    \/ parser_free_vm_code

Spec == Init /\ [][Next]_vars

(***************************************************************************)
(* The frontend as main runs it (src/main.c): the file's text is parsed    *)
(* line by line; if that succeeds the VM holds the bytecode and run_vm is  *)
(* entered, if it fails main reports the error and there is no VM.         *)
(***************************************************************************)
\* the VM before parse_rr_string_to_vm has filled it
Unparsed == [InitVM(<<>>) EXCEPT !.status = "unparsed"]

InitFront ==
    /\ backend \in {INTERPRETER, TAC}
    /\ \E src \in Sources : parser = parser_start(SourceLines(src, 1, ""))
    /\ vm = Unparsed
    /\ g_calls = <<>>
    /\ g_derefs = <<>>
    /\ g_emitted = <<>>
    /\ g_loops = {}
    /\ g_first = [ran |-> FALSE, prog |-> <<>>]
    /\ g_prev = NoStep
    /\ g_whiles = <<>>

\* one turn of while (line)
ParseLine ==
    /\ parser.status = "parsing"
    /\ parser.lines # <<>>
    /\ parser' = parse_line(parser)
    /\ g_whiles' = IF /\ parser'.status = "parsing"
                      /\ Len(parser'.code) = Len(parser.code) + 2
                      /\ parser'.code[Len(parser.code) + 1] = OP_WHILE
                   THEN Append(g_whiles, [label |-> parser'.tokens[2],
                                          imm_pos |-> Len(parser.code) + 1])
                   ELSE g_whiles
    /\ UNCHANGED <<vm, backend, g_calls, g_derefs, g_emitted, g_loops, g_first, g_prev>>

\* strtok has returned NULL: the checks after the loop, then out_vm is filled
\* and main calls run_vm, which sets the backend up and resets the machine
ParseEnd ==
    /\ parser.status = "parsing"
    /\ parser.lines = <<>>
    /\ parser' = parse_end(parser)
    /\ vm' = IF parser'.status = "done" THEN Started(backend, parser.code) ELSE vm
    /\ UNCHANGED <<backend, g_calls, g_derefs, g_emitted, g_loops, g_first, g_prev,
                   g_whiles>>

NextFront ==
    \/ ParseLine
    \/ ParseEnd

SpecFront == InitFront /\ [][NextFront]_vars

(***************************************************************************)
(* The block structure of a program, read instruction by instruction the   *)
(* way the dispatch loop decodes it: what "the Else or EndBlock of that    *)
(* same If" and "the EndBlock that closes the loop" mean.                  *)
(***************************************************************************)
\* the immediates run_vm reads after an opcode
Arity(op) ==
    IF op = OP_PUSH \/ op = OP_SET THEN 2
    ELSE IF op = OP_MOVE \/ op = OP_OFFSET \/ op = OP_FUNCTION \/ op = OP_CALL
            \/ op = OP_WHILE THEN 1
    ELSE 0

\* the position just past the ENDBLOCK (or, with else_too, the ELSE) of the
\* block whose body starts at the instruction at position i
RECURSIVE BlockClose(_, _, _, _, _)
BlockClose(c, n, i, depth, else_too) ==
    IF ~(i < n) THEN n
    ELSE LET op == c[i + 1]
             next == i + 1 + Arity(op)
         IN  IF op = OP_IF \/ op = OP_WHILE \/ op = OP_FUNCTION
             THEN BlockClose(c, n, next, depth + 1, else_too)
             ELSE IF op = OP_ENDBLOCK
             THEN IF depth = 0 THEN i + 1
                  ELSE BlockClose(c, n, next, depth - 1, else_too)
             ELSE IF op = OP_ELSE /\ depth = 0 /\ else_too THEN i + 1
             ELSE BlockClose(c, n, next, depth, else_too)

\* the positions at which an instruction of c starts
RECURSIVE InstrStarts(_, _, _)
InstrStarts(c, n, i) ==
    IF ~(i < n) THEN {}
    ELSE {i} \cup InstrStarts(c, n, i + 1 + Arity(c[i + 1]))

\* the WHILE instructions of c that the ENDBLOCK at position e closes
LoopsClosedAt(c, n, e) ==
    {w \in InstrStarts(c, n, 0) :
        /\ c[w + 1] = OP_WHILE
        /\ BlockClose(c, n, w + 2, 0, FALSE) = e + 1}

\* the run is the interpreter's: run_vm with the table __INTERPRETER
Interpreting == backend = INTERPRETER
AtInterp(op) == Interpreting /\ AtOp(op)

\* the interpreter runs one of the well-formed programs
WellFormed == Interpreting /\ vm.code \in WellFormedPrograms

\* the loop is at op and its operand, the top of the stack, is zero / not zero
AtZero(op) == AtInterp(op) /\ vm.sp > 0 /\ vm.stack[vm.sp - 1] = 0
AtNonZero(op) == AtInterp(op) /\ vm.sp > 0 /\ vm.stack[vm.sp - 1] # 0

(***************************************************************************)
(* Properties.                                                             *)
(***************************************************************************)
\* C1: an If that pops a zero condition resumes just past the Else, or the
\* EndBlock when there is no Else, of that same If, in every well-formed
\* program, whatever blocks and immediates its branches contain.
C1_IfZeroResumesPastOwnElse ==
    [][(WellFormed /\ AtZero(OP_IF))
        => vm'.ip = BlockClose(vm.code, vm.code_len, vm.ip + 1, 0, TRUE)]_vars

\* C2: Function(idx) records functions[idx] = the ip just past its immediate
\* and resumes just past the EndBlock that closes the function, so that no
\* instruction of the body runs at definition time.
C2_FunctionSkipsOwnBody ==
    [][(WellFormed /\ AtInterp(OP_FUNCTION) /\ HasImm1 /\ ULess(Imm(1), FUNCTIONS_SIZE))
        => /\ vm'.functions[Imm(1)] = vm.ip + 2
           /\ vm'.ip = BlockClose(vm.code, vm.code_len, vm.ip + 2, 0, FALSE)]_vars

\* C3: a While that pops a non-zero condition enters its body, one that pops
\* zero resumes just past the EndBlock that closes the loop, and that
\* EndBlock sends control back to the loop's cond_ip, whatever blocks the
\* body contains.
C3_WhileLoopsOnCondition ==
    [][/\ (WellFormed /\ AtNonZero(OP_WHILE) /\ HasImm1 /\ vm'.status = "running")
            => vm'.ip = vm.ip + 2
       /\ (WellFormed /\ AtZero(OP_WHILE) /\ HasImm1)
            => vm'.ip = BlockClose(vm.code, vm.code_len, vm.ip + 2, 0, FALSE)
       /\ (WellFormed /\ AtInterp(OP_ENDBLOCK))
            => \A w \in LoopsClosedAt(vm.code, vm.code_len, vm.ip) :
                   vm'.ip = vm.code[w + 2]]_vars

\* C4: when a well-formed program reaches Halt or the end of its code, the
\* block stack and the call stack are empty.
C4_StacksEmptyAtEnd ==
    (WellFormed /\ vm.status \in {"halted", "ended"})
        => (vm.block_sp = 0 /\ vm.call_sp = 0)

\* C5: after every opcode that does not abort, from any program, sp, tp_sp,
\* call_sp and block_sp are within their stacks' sizes: an operation that
\* would take one of them out of its range aborts instead.
C5_StackPointersInRange ==
    (Interpreting /\ vm.status # "aborted")
        => /\ 0 <= vm.sp /\ vm.sp <= STACK_SIZE
           /\ 0 <= vm.tp_sp /\ vm.tp_sp <= TAPE_SIZE
           /\ 0 <= vm.call_sp /\ vm.call_sp <= CALL_STACK_SIZE
           /\ 0 <= vm.block_sp /\ vm.block_sp <= BLOCK_STACK_SIZE

\* the loop is at one of the opcodes that set the tape pointer
AtPointerOp ==
    \/ AtInterp(OP_MOVE) \/ AtInterp(OP_OFFSET) \/ AtInterp(OP_INDEX)
    \/ AtInterp(OP_DEREF) \/ AtInterp(OP_REFER)

\* C6: after every Move, Offset, Index, Deref or Refer that does not abort,
\* 0 <= tp < TAPE_SIZE, for every signed immediate or operand.
C6_TapePointerInRange ==
    [][(AtPointerOp /\ vm'.status = "running") => InTape(vm'.tp)]_vars

\* C7: a Return executed in a called function with a value v on top of its
\* frame leaves v on top of the stack at the caller's sp + 1, restores the
\* caller's fp and call_sp, and resumes at the word after the Call's
\* immediate; for calls from the top level, from functions, and recursive.
C7_ReturnRestoresCaller ==
    [][(AtInterp(OP_RETURN) /\ vm.call_sp > 0 /\ vm.sp > vm.fp)
        => LET c == g_calls[Len(g_calls)]
           IN  /\ vm'.status = "running"
               /\ vm'.sp = c.sp + 1
               /\ vm'.stack[vm'.sp - 1] = vm.stack[vm.sp - 1]
               /\ vm'.fp = c.fp
               /\ vm'.call_sp = c.call_sp
               /\ vm'.ip = c.next]_vars

\* a return has just brought a value back into a function that was itself
\* called: the machine is just past a Call's immediate, one call deep
C7_ReturnedIntoCallee ==
    /\ Interpreting
    /\ vm.code \in FuncPrograms
    /\ vm.status = "running"
    /\ vm.ip >= 2 /\ vm.code[vm.ip - 1] = OP_CALL
    /\ vm.call_sp = 1 /\ Len(g_calls) = 1
    /\ vm.sp > vm.fp
    /\ vm.fp = g_calls[1].sp

\* C8: a Refer leaves tp and tp_sp exactly as they were before the Deref it
\* matches, whatever moved tp in between.
C8_ReferUndoesDeref ==
    [][(AtInterp(OP_REFER) /\ g_derefs # <<>>)
        => LET d == g_derefs[Len(g_derefs)]
           IN  /\ vm'.status = "running"
               /\ vm'.tp = d.tp
               /\ vm'.tp_sp = d.tp_sp]_vars

\* three Derefs have chased pointers to cell 3, written it, and three Refers
\* have come back
C8_ChaseUndone ==
    /\ Interpreting
    /\ vm.code = Prog5
    /\ vm.status = "running"
    /\ vm.ip >= 1 /\ vm.code[vm.ip] = OP_REFER
    /\ vm.tape[3] = 999
    /\ vm.tp = 0 /\ vm.tp_sp = 0 /\ g_derefs = <<>>

\* C9: Call(idx) of an index for which no Function(idx) has recorded an entry
\* aborts, whatever other indices have been defined.
C9_CallUndefinedAborts ==
    [][(AtInterp(OP_CALL) /\ HasImm1
        /\ (ULess(Imm(1), FUNCTIONS_SIZE) => vm.functions[Imm(1)] = UNINIT))
        => vm'.status = "aborted"]_vars

\* what a binary opcode computes from the second-from-top x and the top y
OpResult(op, x, y) ==
    CASE op = OP_ADD -> x + y
      [] op = OP_SUB -> x - y
      [] op = OP_MUL -> x * y
      [] op = OP_DIV -> CDiv(x, y)
      [] op = OP_REM -> CRem(x, y)
      [] op = OP_ORASSign -> IF x # 0 \/ y # 0 THEN 1 ELSE 0
      [] op = OP_ANDASSign -> IF x # 0 /\ y # 0 THEN 1 ELSE 0
      [] op = OP_BITAND -> bitand_impl(x, y).val
      [] op = OP_BITOR -> bitor_impl(x, y).val
      [] op = OP_BITXOR -> bitxor_impl(x, y).val
      [] op = OP_LSH -> x * Pow2(y)
      [] op = OP_LRSH -> x \div Pow2(y)
      [] op = OP_ARSH -> FloorShift(x, y)

\* the operands for which the opcode has a result: no division by zero, a
\* shift count within 0..30, no shift of a negative value as unsigned or to
\* the left, and values small enough for the result to be a word
OpDefined(op, x, y) ==
    /\ MulSmall(x) /\ MulSmall(y)
    /\ op \in {OP_DIV, OP_REM} => y # 0
    /\ op \in {OP_LSH, OP_LRSH, OP_ARSH} => (y >= 0 /\ y <= 30)
    /\ op \in {OP_LSH, OP_LRSH} => x >= 0
    /\ op = OP_LSH => x <= INT_MAX \div Pow2(y)

\* C10: every binary opcode on two operands with equal tags replaces them by
\* op(second-from-top, top) with the common tag: sp is one lower, and the
\* deeper stack entries, the tape, tp and ip (past the opcode) are as before.
C10_BinaryOpStackEffect ==
    [][\A op \in BinaryOps :
        (/\ AtInterp(op) /\ vm.sp >= 2
         /\ vm.types[vm.sp - 1] = vm.types[vm.sp - 2]
         /\ OpDefined(op, vm.stack[vm.sp - 2], vm.stack[vm.sp - 1]))
        => /\ vm'.status = "running"
           /\ vm'.sp = vm.sp - 1
           /\ vm'.stack[vm.sp - 2] = OpResult(op, vm.stack[vm.sp - 2], vm.stack[vm.sp - 1])
           /\ vm'.types[vm.sp - 2] = vm.types[vm.sp - 1]
           /\ \A i \in 0..(vm.sp - 3) :
                  vm'.stack[i] = vm.stack[i] /\ vm'.types[i] = vm.types[i]
           /\ vm'.tape = vm.tape /\ vm'.tape_types = vm.tape_types
           /\ vm'.tp = vm.tp
           /\ vm'.ip = vm.ip + 1]_vars

\* 35 - 3 has just been computed over a deeper entry and a written tape cell
C10_SubtractionDone ==
    /\ Interpreting
    /\ vm.code \in BinaryPrograms /\ Len(vm.code) = 15
    /\ vm.status = "running"
    /\ vm.code[13] = OP_SUB /\ vm.ip = 13
    /\ vm.sp = 2
    /\ vm.stack[1] = 32 /\ vm.types[1] = TYPE_U64
    /\ vm.stack[0] = 9 /\ vm.types[0] = TYPE_BOOL
    /\ vm.tape[0] = 77

\* the loop is at one of the binary opcodes
AtBinaryOp == \E op \in BinaryOps : AtInterp(op)

\* C11: a binary opcode executed with fewer than two entries on the stack, or
\* with different tags on the top two entries, aborts the run, and nothing is
\* pushed: sp and the stack are as before.
C11_BinaryOpFailsFast ==
    [][(/\ AtBinaryOp
        /\ \/ vm.sp < 2
           \/ vm.types[vm.sp - 1] # vm.types[vm.sp - 2])
        => /\ vm'.status = "aborted"
           /\ vm'.sp = vm.sp
           /\ vm'.stack = vm.stack]_vars

\* a binary opcode met an I64 under a U8 and the run has aborted with both
\* operands still on the stack
C11_MismatchAborted ==
    /\ Interpreting
    /\ vm.code \in BinaryPrograms /\ Len(vm.code) = 7
    /\ vm.status = "aborted"
    /\ vm.ip = 7
    /\ vm.sp = 2
    /\ vm.types[0] = TYPE_I64 /\ vm.types[1] = TYPE_U8

\* C12: Div or Rem executed with equal tags and a zero on top of the stack
\* aborts the run, whatever the other operand is.
C12_DivisionByZeroAborts ==
    [][(/\ (AtInterp(OP_DIV) \/ AtInterp(OP_REM))
        /\ vm.sp >= 2
        /\ vm.types[vm.sp - 1] = vm.types[vm.sp - 2]
        /\ vm.stack[vm.sp - 1] = 0)
        => vm'.status = "aborted"]_vars

\* a Rem of -8 by 0 has aborted the run
C12_RemByZeroAborted ==
    /\ Interpreting
    /\ vm.code \in BinaryPrograms /\ Len(vm.code) = 15
    /\ vm.code[13] = OP_REM /\ vm.code[9] = -8 /\ vm.code[12] = 0
    /\ vm.status = "aborted"
    /\ vm.ip = 13

\* C13: for signed words a and b with b # 0, the interpreter's
\* (a Div b) Mul b Add (a Rem b) runs to its end without aborting and leaves
\* a, alone, on top of the stack.
C13_DivMulRemRoundTrip ==
    (Interpreting /\ vm.code \in RoundTripPrograms /\ vm.code[6] # 0)
        => /\ vm.status \notin {"aborted", "undefined"}
           /\ vm.status = "ended" => (vm.sp = 1 /\ vm.stack[0] = vm.code[3])

\* -7 has come back from (-7 / 3) * 3 + (-7 % 3)
C13_NegativeDividendBack ==
    /\ Interpreting
    /\ vm.code \in RoundTripPrograms
    /\ vm.code[3] = -7 /\ vm.code[6] = 3
    /\ vm.status = "ended"
    /\ vm.sp = 1 /\ vm.stack[0] = -7

\* the words of the code after the opcode the loop is at
Remaining == vm.code_len - (vm.ip + 1)

\* C14: at an opcode that carries immediates, the dispatch loop aborts, with
\* nothing but ip changed (no hook has run), when fewer words remain than the
\* opcode reads (two for Push and Set, one for Move, Offset, Function, Call
\* and While); when the words suffice, a run that aborts has read them all:
\* the abort is the hook's, not the decoder's.
C14_DecodeNeedsImmediates ==
    [][\A op \in ImmediateOps :
        AtOp(op)
        => IF Remaining < Arity(op)
           THEN vm' = [vm EXCEPT !.ip = vm.ip + 1, !.status = "aborted"]
           ELSE vm'.status = "aborted" => vm'.ip = vm.ip + 1 + Arity(op)]_vars

\* a Set followed by its type tag alone has aborted, the tape untouched
C14_SetCutShort ==
    /\ vm.code = <<OP_SET, TYPE_I64>>
    /\ vm.status = "aborted"
    /\ vm.ip = 1
    /\ vm.tape[0] = 0 /\ vm.tape_types[0] = TYPE_UNKNOWN

\* the line printf writes for a signed decimal n

\* C15: when the backend's table has no hook for the opcode at ip (the entry
\* is NULL, or the backend is), the dispatch loop treats the opcode as a
\* no-op: ip advances by 1 plus the number of immediates the opcode reads and
\* nothing else of the VM changes - not sp, fp, tp, tp_sp, call_sp, block_sp,
\* the stack, the tape or the output.
C15_MissingHookIsNoOp ==
    [][\A op \in HookOps :
        (AtOp(op) /\ op \notin backend.ops /\ Remaining >= Arity(op))
            => vm' = [vm EXCEPT !.ip = vm.ip + 1 + Arity(op)]]_vars

\* the table with the six arithmetic hooks has run the functions-and-if
\* program straight through: Function, Call, Return, If, Else and EndBlock
\* did nothing, so both bodies were added up and both branches printed, and
\* the condition that no If popped is still on the stack (every Push of
\* this table has pushed its type tag, 7)
C15_StraightThrough ==
    /\ backend = ARITHMETIC
    /\ vm.code = FunctionIfElseProgram
    /\ vm.status = "halted"
    /\ vm.out = <<Decimal(63), Decimal(7), Decimal(7)>>
    /\ vm.sp = 1 /\ vm.stack[0] = 7
    /\ vm.call_sp = 0 /\ vm.block_sp = 0 /\ vm.functions_count = 0

\* s is the beginning of t
IsPrefix(s, t) == Len(s) <= Len(t) /\ s = SubSeq(t, 1, Len(s))

\* a run of the interpreter that prints the lines of expected in their order
\* and nothing else, never aborts, runs off its code or leaves defined
\* behaviour, and has printed them all when it halts.  Such a run is the
\* only one of its program: no step of it has more than one outcome
PrintsExactly(expected) ==
    /\ vm.status \in {"running", "halted", "finalized"}
    /\ IsPrefix(vm.out, expected)
    /\ vm.status \in {"halted", "finalized"} => vm.out = expected

\* C16: the count-down program (4 stored in tape[0]; a condition-first while
\* on Load whose body prints tape[0] and stores tape[0] - 1) prints exactly
\* 4, 3, 2, 1 in that order and then halts.
C16_CountDownPrints4321 ==
    (Interpreting /\ vm.code = CountDownProgram)
        => PrintsExactly(<<Decimal(4), Decimal(3), Decimal(2), Decimal(1)>>)

\* the count-down has halted after its four lines, the counter at zero
C16_CountDownHalted ==
    /\ Interpreting
    /\ vm.code = CountDownProgram
    /\ vm.status = "halted"
    /\ Len(vm.out) = 4
    /\ vm.tape[0] = 0

\* C17: with f returning 7 + 35 and g returning 5 * 3, the main sequence
\* Call f; Call g; Add; Print; Push 1; If; Push 100; Print; Else; Push 200;
\* Print; EndBlock; Halt prints exactly 57 then 100 and halts: the 200 of the
\* else branch is never printed.
C17_FunctionsThenIfPrint57And100 ==
    (Interpreting /\ vm.code = FunctionIfElseProgram)
        => PrintsExactly(<<Decimal(57), Decimal(100)>>)

\* the functions-and-if program has halted after two lines, both calls
\* returned from
C17_TrueBranchHalted ==
    /\ Interpreting
    /\ vm.code = FunctionIfElseProgram
    /\ vm.status = "halted"
    /\ Len(vm.out) = 2
    /\ vm.call_sp = 0 /\ vm.functions_count = 2

\* C18: with tape[0] = 1, tape[1] = 2, tape[2] = 3 and tp = 0, three Derefs,
\* Set(I64, 999), three Refers, Where; Print, Offset(3); Load; Print prints
\* exactly 0 then 999 and halts: the Refers restore the saved pointers last
\* in first out, and the Set lands in tape[3].
C18_ChainedDerefPrints0And999 ==
    (Interpreting /\ vm.code = Prog5)
        => /\ PrintsExactly(<<Decimal(0), Decimal(999)>>)
           /\ vm.status = "halted" => (vm.tape[3] = 999 /\ vm.tp_sp = 0)

\* the pointer chase has halted after its two lines, tp on the written cell
C18_ChaseHalted ==
    /\ Interpreting
    /\ vm.code = Prog5
    /\ vm.status = "halted"
    /\ Len(vm.out) = 2
    /\ vm.tp = 3 /\ vm.tape[0] = 1 /\ vm.tape[1] = 2 /\ vm.tape[2] = 3

(***************************************************************************)
(* The lowering to TAC.  The IR of the run is vm.user_data.prog; Produced  *)
(* reads the history for where an opcode's instructions are in it now.     *)
(***************************************************************************)
\* run_vm with the table __TAC, within what the model follows of it
Lowering == backend = TAC /\ vm.status \notin {"undefined", "finalized", "freed"}

\* the index in the IR, from 0, of the first instruction that the hook of
\* the opcode at ip appended, or -1 if it has appended none
Produced(ip) ==
    IF \E j \in 1..Len(g_emitted) : g_emitted[j] = [ip |-> ip, nth |-> 1]
    THEN (CHOOSE j \in 1..Len(g_emitted) : g_emitted[j] = [ip |-> ip, nth |-> 1]) - 1
    ELSE -1

\* instruction k of the IR, from 0
IR(k) == vm.user_data.prog[k + 1]

\* the ip of the EndBlock that closes the loop of the While at ip w
LoopEnd(w) == BlockClose(vm.code, vm.code_len, w + 2, 0, FALSE) - 1

\* C19: once While(cond_vm_ip) is lowered, and after every later lowering
\* step (the retroactive inserts of other loops included), the IR has
\* Label(cond_label) immediately before the first instruction produced by the
\* opcode at cond_vm_ip, the loop's Jz targets its end_label, and the loop's
\* EndBlock has emitted Jmp(cond_label) followed by Label(end_label).
C19_WhileLabelAtCondition ==
    Lowering =>
        \A l \in g_loops :
            /\ Produced(l.cond_vm_ip) >= 0
                => /\ Produced(l.cond_vm_ip) >= 1
                   /\ IR(Produced(l.cond_vm_ip) - 1) = tac_label(l.cond_label)
            /\ IR(Produced(l.while_ip)).op = "TAC_JZ"
            /\ IR(Produced(l.while_ip)).imm = l.end_label
            /\ Produced(LoopEnd(l.while_ip)) >= 0
                => /\ IR(Produced(LoopEnd(l.while_ip))) = tac_jmp(l.cond_label)
                   /\ Produced(LoopEnd(l.while_ip)) + 1 < Len(vm.user_data.prog)
                   /\ IR(Produced(LoopEnd(l.while_ip)) + 1) = tac_label(l.end_label)

\* C20: at every point of a lowering run, for every opcode whose hook has
\* emitted at least one instruction, vm_ip_to_tac_index[ip] is a valid index
\* of the IR and the instruction there is the first one that opcode emitted,
\* whatever labels have been inserted in front of it since.
C20_IpMapPointsAtFirstEmitted ==
    Lowering =>
        /\ Len(g_emitted) = Len(vm.user_data.prog)
        /\ \A ip \in 0..(vm.code_len - 1) :
               Produced(ip) >= 0
               => /\ vm.user_data.vm_ip_to_tac_index[ip] >= 0
                  /\ vm.user_data.vm_ip_to_tac_index[ip] < Len(vm.user_data.prog)
                  /\ vm.user_data.vm_ip_to_tac_index[ip] = Produced(ip)

\* both loops of Push 1; Load; While 0; Load; While 3; EndBlock; EndBlock;
\* Halt are lowered: a label went in front of the Push's Const and another in
\* front of the first Load, and the entries of both, of the two Whiles and of
\* the second Load moved with their instructions
C20_TwoLabelsInserted ==
    /\ backend = TAC
    /\ vm.code = <<OP_PUSH, TYPE_I64, 1, OP_LOAD, OP_WHILE, 0,
                   OP_LOAD, OP_WHILE, 3, OP_ENDBLOCK, OP_ENDBLOCK, OP_HALT>>
    /\ vm.status = "halted"
    /\ IR(0).op = "TAC_LABEL" /\ IR(1).op = "TAC_CONST"
    /\ IR(2).op = "TAC_LABEL" /\ IR(3).op = "TAC_LOAD"
    /\ vm.user_data.vm_ip_to_tac_index[0] = 1
    /\ vm.user_data.vm_ip_to_tac_index[3] = 3
    /\ vm.user_data.vm_ip_to_tac_index[4] = 4
    /\ vm.user_data.vm_ip_to_tac_index[6] = 6
    /\ vm.user_data.vm_ip_to_tac_index[7] = 7

\* the lowering run is over: Halt was reached or the code ran out
Finished == vm.status \in {"halted", "ended"}

\* the ips of the opcodes op with immediate idx whose hook has emitted
EmittedAt(op, idx) ==
    {ip \in 0..(vm.code_len - 2) :
        /\ Produced(ip) >= 0
        /\ vm.code[ip + 1] = op
        /\ vm.code[ip + 2] = idx}

\* C21: in the final IR every Call instruction lowered from Call(idx) has as
\* imm the label id of the Label instruction emitted for Function(idx),
\* whether the Call comes before the Function opcode in the bytecode (a
\* forward reference) or after it.
C21_CallCarriesFunctionLabel ==
    (Lowering /\ Finished) =>
        \A idx \in 0..255 :
            \A c \in EmittedAt(OP_CALL, idx) :
                \A f \in EmittedAt(OP_FUNCTION, idx) :
                    /\ IR(Produced(c)).op = "TAC_CALL"
                    /\ IR(Produced(f)).op = "TAC_LABEL"
                    /\ IR(Produced(c)).imm = IR(Produced(f)).imm

\* a set of pairs is a one-to-one correspondence
OneToOne(P) == \A p \in P : \A q \in P : (p[1] = q[1]) <=> (p[2] = q[2])

\* the instructions whose imm is a label id
LabelOps == {"TAC_LABEL", "TAC_JMP", "TAC_JZ", "TAC_CALL"}

\* two IR vectors agree up to a renaming of temp ids and of label ids: same
\* length, and instruction by instruction the same opcode and type, the same
\* immediate where it is not a label, and temps and labels that correspond
\* one to one
SameUpToRenaming(a, b) ==
    /\ Len(a) = Len(b)
    /\ \A i \in 1..Len(a) :
           /\ a[i].op = b[i].op
           /\ a[i].dst_type = b[i].dst_type
           /\ a[i].op \notin LabelOps => a[i].imm = b[i].imm
    /\ OneToOne(UNION {{<<a[i].dst, b[i].dst>>, <<a[i].lhs, b[i].lhs>>,
                         <<a[i].rhs, b[i].rhs>>} : i \in 1..Len(a)})
    /\ OneToOne({<<a[i].imm, b[i].imm>> : i \in {j \in 1..Len(a) : a[j].op \in LabelOps}})

\* main has written the dump of the lowered program: vm.out is its text
Dumped == backend = TAC /\ vm.status = "dumped"

IsHead(x) == x.tok = "head"
IsPeriod(x) == x.tok = "period"
IsLabelInstr(x) == x.op = "TAC_LABEL"
IsOtherInstr(x) == x.op # "TAC_LABEL"
IsLabelHead(x) == x.tok = "head" /\ x.label # 0

\* a goal that prints an instruction; the goal true is the body of a label
\* that has none
IsInstrGoal(x) == x.tok = "goal" /\ x.goal.functor # "true"

\* the place in the text of the n-th goal that prints an instruction
GoalAt(n) ==
    CHOOSE k \in 1..Len(vm.out) :
        /\ IsInstrGoal(vm.out[k])
        /\ Cardinality({j \in 1..k : IsInstrGoal(vm.out[j])}) = n

\* the place in the IR (from 1) of the n-th instruction that is not a label
OtherAt(n) ==
    CHOOSE k \in 1..Len(vm.user_data.prog) :
        /\ IsOtherInstr(vm.user_data.prog[k])
        /\ Cardinality({j \in 1..k : IsOtherInstr(vm.user_data.prog[j])}) = n

\* every instruction that is not a label is printed once, as one goal, in
\* the order of the IR
GoalsAreTheInstructions ==
    LET goals == SelectSeq(vm.out, IsInstrGoal)
        others == SelectSeq(vm.user_data.prog, IsOtherInstr)
    IN  /\ Len(goals) = Len(others)
        /\ \A n \in 1..Len(goals) : goals[n].goal = tac_print_goal(others[n])

\* C23: in the dump every Ret goal is the last goal of its clause, with the
\* period right after it; an instruction that follows a Ret and is not a
\* label is printed in a newly opened clause whose head is l0; and no goal is
\* printed outside a clause: each goal comes right after a head or after the
\* comma that follows another goal.
C23_RetEndsClause ==
    Dumped =>
        /\ GoalsAreTheInstructions
        /\ \A k \in 1..Len(vm.out) :
               (vm.out[k].tok = "goal" /\ vm.out[k].goal.functor = "ret")
                   => (k < Len(vm.out) /\ vm.out[k + 1].tok = "period")
        /\ \A k \in 1..Len(vm.out) :
               vm.out[k].tok = "goal"
                   => (k > 1 /\ vm.out[k - 1].tok \in {"head", "comma"})
        /\ \A k \in 1..Len(vm.out) :
               vm.out[k].tok = "comma"
                   => (k > 1 /\ vm.out[k - 1].tok = "goal")
        /\ \A n \in 1..(Len(SelectSeq(vm.user_data.prog, IsOtherInstr)) - 1) :
               (/\ vm.user_data.prog[OtherAt(n)].op = "TAC_RET"
                /\ OtherAt(n + 1) = OtherAt(n) + 1)
                   => vm.out[GoalAt(n + 1) - 1] = ClauseHead(0)

\* the first head after place h of the text, or the end of the text
NextHead(h) ==
    IF \E k \in (h + 1)..Len(vm.out) : IsHead(vm.out[k])
    THEN CHOOSE k \in (h + 1)..Len(vm.out) :
            /\ IsHead(vm.out[k])
            /\ \A j \in (h + 1)..(k - 1) : ~IsHead(vm.out[j])
    ELSE Len(vm.out) + 1

\* C24: the dump has one clause head l<id> per Label instruction, in the
\* order of the IR; instructions before the first Label are in a clause
\* headed l0; every instruction that is not a Label is printed exactly once,
\* as one goal, in the order of the IR; and every clause, from its head to
\* the next head, has exactly one period, which ends it.
C24_OneClausePerLabel ==
    Dumped =>
        LET heads == SelectSeq(vm.out, IsLabelHead)
            labels == SelectSeq(vm.user_data.prog, IsLabelInstr)
        IN  /\ Len(heads) = Len(labels)
            /\ \A n \in 1..Len(heads) : heads[n].label = labels[n].imm
            /\ (vm.user_data.prog # <<>> /\ ~IsLabelInstr(vm.user_data.prog[1]))
                   => vm.out[1] = ClauseHead(0)
            /\ vm.out # <<>> => IsHead(vm.out[1])
            /\ GoalsAreTheInstructions
            /\ \A h \in 1..Len(vm.out) :
                   IsHead(vm.out[h])
                       => /\ Cardinality({k \in (h + 1)..(NextHead(h) - 1) :
                                             IsPeriod(vm.out[k])}) = 1
                          /\ \E k \in (h + 1)..(NextHead(h) - 1) :
                                 /\ IsPeriod(vm.out[k])
                                 /\ \A j \in (k + 1)..(NextHead(h) - 1) :
                                        vm.out[j].tok = "blank"

\* the step before this one was a Push, at the three words just before ip,
\* and the loop is now at the Print that follows it
PrintAfterPush ==
    /\ AtInterp(OP_PRINT)
    /\ g_prev.ip >= 0
    /\ vm.ip = g_prev.ip + 3
    /\ vm.code[g_prev.ip + 1] = OP_PUSH

PushedTag == vm.code[g_prev.ip + 2]
PushedValue == vm.code[g_prev.ip + 3]

\* C25: under the interpreter a Print that comes right after Push(t, v)
\* prints a text that t and v alone determine: the signed decimal of v for
\* the signed integer tags and for Bool, Ptr and Unknown, the unsigned decimal
\* of the 64 bits of v for the unsigned integer tags; and sp is afterwards
\* what it was before the Push.
C25_PushThenPrintShowsValue ==
    [][PrintAfterPush =>
        /\ vm'.status = "running"
        /\ vm'.out = Append(vm.out, PrintText(PushedTag, PushedValue))
        /\ PushedTag \in {TYPE_U8, TYPE_U16, TYPE_U32, TYPE_U64}
               => vm'.out[Len(vm'.out)] = UnsignedDecimal(PushedValue)
        /\ PushedTag \in {TYPE_I8, TYPE_I16, TYPE_I32, TYPE_I64,
                          TYPE_BOOL, TYPE_PTR, TYPE_UNKNOWN}
               => vm'.out[Len(vm'.out)] = Decimal(PushedValue)
        /\ vm'.sp = g_prev.sp]_vars

\* Push(U8, -1); Push(U64, INT_MIN); Print has printed the 64 bits of
\* INT_MIN as an unsigned number and left the first value on the stack
C25_UnsignedPrinted ==
    /\ Interpreting
    /\ vm.code = <<OP_PUSH, TYPE_U8, -1, OP_PUSH, TYPE_U64, INT_MIN, OP_PRINT, OP_HALT>>
    /\ vm.ip = 7
    /\ g_prev.ip = 6
    /\ vm.out = <<"18446744071562067968">>
    /\ vm.sp = 1

(***************************************************************************)
(* The frontend (SpecFront).                                               *)
(***************************************************************************)
\* the place of the first '#' of the line, 0 if it has none
FirstHash(line) ==
    IF \E k \in 1..Len(line) : CharAt(line, k) = "#"
    THEN CHOOSE k \in 1..Len(line) :
            /\ CharAt(line, k) = "#"
            /\ \A j \in 1..(k - 1) : CharAt(line, j) # "#"
    ELSE 0

\* the line that the parser has just read has a '#' after one or more tokens
HasTrailingComment(line) ==
    /\ FirstHash(line) > 0
    /\ SkipSpaces(line, 1) < FirstHash(line)

\* the white-space separated words of a text without '#'
Words(text) == Tokenized(text, 1, <<>>).tokens

\* C26: a line with a '#' after one or more tokens is tokenized with
\* success into exactly the white-space separated tokens before the '#', and
\* a line whose first non-space character is '#' yields no tokens.
C26_TrailingCommentIgnored ==
    parser.lineno > 0 =>
        /\ HasTrailingComment(parser.line) =>
              /\ parser.ntok >= 0
              /\ parser.tokens = Words(SubSeq(parser.line, 1, FirstHash(parser.line) - 1))
        /\ lexer_is_comment_line(parser.line) =>
              /\ parser.ntok = 0
              /\ parser.tokens = <<>>

\* the parser has finished, with the bytecode or with an error
Parsed == parser.status \in {"done", "error"}

\* the while of g_whiles[i] names a label that the table holds
LabelOf(i) ==
    {k \in 1..Len(parser.labels) : parser.labels[k].name = g_whiles[i].label}

\* C27: when parsing succeeds, the immediate of every While of the bytecode
\* is the code position where the label it names was defined, be it before
\* or after the while line; if a while names a label that is never defined,
\* parsing fails and there is no VM.
C27_WhileImmediateIsLabelPosition ==
    /\ parser.status = "done" =>
          /\ vm.status = "running"
          /\ vm.code = parser.code
          /\ \A i \in 1..Len(g_whiles) :
                /\ vm.code[g_whiles[i].imm_pos] = OP_WHILE
                /\ \E k \in LabelOf(i) :
                      vm.code[g_whiles[i].imm_pos + 1] = parser.labels[k].pos
    /\ (Parsed /\ \E i \in 1..Len(g_whiles) : LabelOf(i) = {}) =>
          /\ parser.status = "error"
          /\ vm = Unparsed

\* "while L", "L:", "while L" has been parsed: a forward and a backward
\* reference to the label at position 2
C27_ForwardAndBackwardResolved ==
    /\ parser.status = "done"
    /\ g_whiles = <<[label |-> "L", imm_pos |-> 1], [label |-> "L", imm_pos |-> 3]>>
    /\ parser.labels = <<[name |-> "L", pos |-> 2, defined |-> TRUE]>>
    /\ vm.code = <<OP_WHILE, 2, OP_WHILE, 2>>

(***************************************************************************)
(* The scanners and the blocks of the interpreter (Spec).                  *)
(***************************************************************************)
\* how far a scanner moves i at the opcode op: the branches that count the
\* depth move it by the i++ of the fetch alone, the last branch adds the
\* immediates it knows; in_function tells interp_function's scanner, whose
\* depth++ branch takes OP_FUNCTION too
ScanStride(op, in_function) ==
    IF op \in {OP_IF, OP_WHILE, OP_ELSE, OP_ENDBLOCK} \/ (in_function /\ op = OP_FUNCTION)
    THEN 1
    ELSE 1 + SkipImm(op)

\* the positions whose word a scanner fetched as an opcode, from position i
\* to where it stopped
RECURSIVE ReadAsOpcode(_, _, _, _)
ReadAsOpcode(c, i, stop, in_function) ==
    IF ~(i < stop) THEN {}
    ELSE {i} \cup ReadAsOpcode(c, i + ScanStride(c[i + 1], in_function), stop, in_function)

\* the scanner started after the opcode at ip and its k immediates read only
\* words at which an instruction starts
ScansInstructions(k, in_function) ==
    ReadAsOpcode(vm.code, vm.ip + 1 + k, vm'.ip, in_function)
        \subseteq InstrStarts(vm.code, vm.code_len, 0)

\* C28: the scanners of Function, If, Else and While step over two words
\* after Push and Set and one word after Move, Offset, Function, Call and
\* While: whatever the immediates are, no scanner fetches an immediate as an
\* opcode.
C28_ScannersHonourArity ==
    [][/\ (WellFormed /\ AtInterp(OP_FUNCTION) /\ HasImm1 /\ ULess(Imm(1), FUNCTIONS_SIZE))
            => ScansInstructions(1, TRUE)
       /\ (WellFormed /\ AtZero(OP_IF)) => ScansInstructions(0, FALSE)
       /\ (WellFormed /\ AtInterp(OP_ELSE)) => ScansInstructions(0, FALSE)
       /\ (WellFormed /\ AtZero(OP_WHILE) /\ HasImm1) => ScansInstructions(1, FALSE)]_vars

\* the IF instructions of c whose ELSE is the one at position e
IfsOfElse(c, n, e) ==
    {p \in InstrStarts(c, n, 0) :
        /\ c[p + 1] = OP_IF
        /\ c[e + 1] = OP_ELSE
        /\ BlockClose(c, n, p + 1, 0, TRUE) = e + 1}

\* the loop is at the Else of an If of a well-formed program
AtElseOfIf == WellFormed /\ AtInterp(OP_ELSE) /\ IfsOfElse(vm.code, vm.code_len, vm.ip) # {}

\* C29: when the true branch of an If reaches Else, the run resumes just
\* past the EndBlock that closes that If, whatever blocks the else branch
\* holds, and exactly one marker, that of the If, leaves the block stack.
C29_ElseResumesPastOwnEndBlock ==
    [][AtElseOfIf
        => /\ vm'.ip = BlockClose(vm.code, vm.code_len, vm.ip + 1, 0, FALSE)
           /\ vm.block_sp > 0
           /\ vm'.block_sp = vm.block_sp - 1
           /\ \E p \in IfsOfElse(vm.code, vm.code_len, vm.ip) :
                 vm.block_stack[vm.block_sp - 1] = [type |-> OP_IF, ip |-> p + 1]]_vars

\* the IF instructions of c, with an ELSE, that the ENDBLOCK at position e
\* closes
IfElsesClosedAt(c, n, e) ==
    {p \in InstrStarts(c, n, 0) :
        /\ c[p + 1] = OP_IF
        /\ c[e + 1] = OP_ENDBLOCK
        /\ BlockClose(c, n, p + 1, 0, FALSE) = e + 1
        /\ BlockClose(c, n, p + 1, 0, TRUE) < e + 1}

\* the loop is at the EndBlock of an If and came to it through the else
\* branch: the last opcode it ran is in that branch, or is the If itself
\* when the branch is empty
AtEndOfElseBranch ==
    /\ WellFormed
    /\ AtInterp(OP_ENDBLOCK)
    /\ \E p \in IfElsesClosedAt(vm.code, vm.code_len, vm.ip) :
          LET after_else == BlockClose(vm.code, vm.code_len, p + 1, 0, TRUE)
          IN  \/ after_else <= g_prev.ip /\ g_prev.ip < vm.ip
              \/ g_prev.ip = p /\ after_else = vm.ip

\* C30: after an If has popped a zero condition and jumped past its Else,
\* the EndBlock that closes that If falls through to the next instruction
\* and leaves the block stack as it is: no marker of an enclosing or earlier
\* If or While is popped or jumped to.
C30_EndBlockAfterElseFallsThrough ==
    [][AtEndOfElseBranch
        => /\ vm'.ip = vm.ip + 1
           /\ vm'.block_sp = vm.block_sp
           /\ vm'.block_stack = vm.block_stack]_vars

\* the marker of the While at ip is on top of the block stack: the loop has
\* been entered and its EndBlock has jumped back to the condition
LoopMarkerOnTop ==
    /\ HasImm1
    /\ vm.block_sp > 0
    /\ vm.block_stack[vm.block_sp - 1] = [type |-> OP_WHILE, ip |-> Imm(1)]

\* C31: the block stack does not grow with the iterations of a loop: a While
\* run again with a non-zero condition leaves block_sp as the first entry
\* left it, and the While that leaves the loop takes the loop's marker off,
\* so that block_sp is again what it was before the loop.
C31_LoopKeepsOneMarker ==
    [][/\ (WellFormed /\ AtNonZero(OP_WHILE) /\ LoopMarkerOnTop)
            => vm'.block_sp = vm.block_sp
       /\ (WellFormed /\ AtZero(OP_WHILE) /\ LoopMarkerOnTop)
            => vm'.block_sp = vm.block_sp - 1]_vars

(***************************************************************************)
(* The IR of a lowering run (Spec).                                        *)
(***************************************************************************)
\* the lowering of a well-formed program has returned
LoweredWellFormed == Lowering /\ Finished /\ vm.code \in WellFormedPrograms

\* the places of the IR where Label(label) stands
LabelsNamed(label) ==
    {j \in 1..Len(vm.user_data.prog) :
        /\ vm.user_data.prog[j].op = "TAC_LABEL"
        /\ vm.user_data.prog[j].imm = label}

\* C32: in the final IR of the lowering of a well-formed program, every
\* label that is the target of a Jz, a Jmp or a Call is defined by exactly
\* one Label instruction, also for an If without Else.
C32_JumpTargetsDefinedOnce ==
    LoweredWellFormed =>
        \A i \in 1..Len(vm.user_data.prog) :
            vm.user_data.prog[i].op \in {"TAC_JZ", "TAC_JMP", "TAC_CALL"}
                => Cardinality(LabelsNamed(vm.user_data.prog[i].imm)) = 1

\* the lowering is at a While whose condition ip has no IR index: it is
\* outside the bytecode, or no hook has recorded it (the hook of this While
\* records its own ip before it looks)
AtWhileWithoutMapping ==
    /\ Lowering
    /\ AtOp(OP_WHILE)
    /\ HasImm1
    /\ \/ ~(Imm(1) >= 0 /\ Imm(1) < vm.code_len)
       \/ Imm(1) # vm.ip /\ vm.user_data.vm_ip_to_tac_index[Imm(1)] < 0

\* C33: a While whose condition ip has no mapping allocates a fresh
\* cond_label and emits Label(cond_label) into the IR, so that the target of
\* the loop's back jump exists.
C33_FallbackLabelEmitted ==
    [][(AtWhileWithoutMapping /\ vm'.status = "running")
        => LET b == vm'.user_data.block_stack[Len(vm'.user_data.block_stack)]
           IN  /\ b.type = OP_WHILE
               /\ b.start_label = vm.user_data.label_counter
               /\ \E j \in 1..Len(vm'.user_data.prog) :
                     vm'.user_data.prog[j] = tac_label(b.start_label)]_vars

\* the opcodes of the IR that have no destination, no left operand, no
\* right operand
WithoutDst == {"TAC_PRINT", "TAC_STORE", "TAC_SET", "TAC_LABEL", "TAC_JMP", "TAC_JZ", "TAC_RET"}
WithoutLhs == {"TAC_CONST", "TAC_LOAD", "TAC_WHERE", "TAC_LABEL", "TAC_JMP", "TAC_RET"}
WithoutRhs ==
    {"TAC_CONST", "TAC_LOAD", "TAC_WHERE", "TAC_LABEL", "TAC_JMP", "TAC_RET", "TAC_JZ",
     "TAC_PRINT"}

\* C34: every instruction of the IR holds -1 in each of dst, lhs and rhs
\* that its opcode does not use.
C34_AbsentFieldsAreMinusOne ==
    Lowering =>
        \A i \in 1..Len(vm.user_data.prog) :
            LET instr == vm.user_data.prog[i]
            IN  /\ instr.op \in WithoutDst => instr.dst = -1
                /\ instr.op \in WithoutLhs => instr.lhs = -1
                /\ instr.op \in WithoutRhs => instr.rhs = -1

\* the opcodes of the IR that put a value in dst, that read lhs, that read
\* rhs
BinaryTacOps ==
    {"TAC_ADD", "TAC_SUB", "TAC_MUL", "TAC_DIV", "TAC_REM", "TAC_OR", "TAC_AND",
     "TAC_BITAND", "TAC_BITOR", "TAC_BITXOR", "TAC_LSH", "TAC_LRSH", "TAC_ARSH"}
UnaryTacOps == {"TAC_NOT", "TAC_GEZ", "TAC_DEREF", "TAC_REFER", "TAC_OFFSET"}
ValueTacOps ==
    BinaryTacOps \cup UnaryTacOps
    \cup {"TAC_CONST", "TAC_LOAD", "TAC_WHERE", "TAC_INDEX", "TAC_CALL"}
LhsTacOps ==
    BinaryTacOps \cup UnaryTacOps
    \cup {"TAC_INDEX", "TAC_STORE", "TAC_PRINT", "TAC_JZ", "TAC_SET"}
RhsTacOps == BinaryTacOps \cup {"TAC_INDEX", "TAC_SET"}

\* the places of the IR where temp t gets its value
DefinitionsOf(t) ==
    {j \in 1..Len(vm.user_data.prog) :
        /\ vm.user_data.prog[j].op \in ValueTacOps
        /\ vm.user_data.prog[j].dst = t}

\* C35: single assignment.  In every IR of the builder, each temp is the dst
\* of at most one instruction that produces a value and is below the
\* counter next_temp, and every temp read as lhs or rhs is defined at a
\* smaller index of the IR; the insertion of a label in front of earlier
\* instructions keeps both.
C35_SingleAssignment ==
    Lowering =>
        \A i \in 1..Len(vm.user_data.prog) :
            LET instr == vm.user_data.prog[i]
            IN  /\ instr.op \in ValueTacOps
                    => /\ DefinitionsOf(instr.dst) = {i}
                       /\ instr.dst >= 0
                       /\ instr.dst < vm.user_data.next_temp
                /\ instr.op \in LhsTacOps
                    => \E j \in DefinitionsOf(instr.lhs) : j < i
                /\ instr.op \in RhsTacOps
                    => \E j \in DefinitionsOf(instr.rhs) : j < i

\* the count-down loop has been lowered: Label(cond) was inserted in front
\* of the Load of the condition, and the Sub of the body reads two temps
\* defined before it
C35_LoopWithInsertedLabelLowered ==
    /\ backend = TAC
    /\ vm.code = CountDownProgram
    /\ vm.status = "halted"
    /\ \E l \in g_loops :
          /\ Produced(l.cond_vm_ip) >= 1
          /\ IR(Produced(l.cond_vm_ip) - 1) = tac_label(l.cond_label)
          /\ IR(Produced(l.cond_vm_ip)).op = "TAC_LOAD"
    /\ \E i \in 1..Len(vm.user_data.prog) :
          /\ vm.user_data.prog[i].op = "TAC_SUB"
          /\ vm.user_data.prog[i].lhs # vm.user_data.prog[i].rhs
          /\ vm.user_data.prog[i].dst > vm.user_data.prog[i].rhs

\* the places of the IR that hold a Label
LabelPlaces ==
    {j \in 1..Len(vm.user_data.prog) : vm.user_data.prog[j].op = "TAC_LABEL"}

\* C36: label ids are unique and never 0.  In every IR no two Label
\* instructions carry the same id, and every id that was allocated (a Label,
\* or the target of a Jz, a Jmp or a Call) is at least 1 and below the
\* counter.
C36_LabelIdsUniqueAndPositive ==
    Lowering =>
        /\ vm.user_data.label_counter >= 1
        /\ \A i \in LabelPlaces : LabelsNamed(vm.user_data.prog[i].imm) = {i}
        /\ \A i \in 1..Len(vm.user_data.prog) :
              vm.user_data.prog[i].op \in LabelOps
                  => /\ vm.user_data.prog[i].imm >= 1
                     /\ vm.user_data.prog[i].imm < vm.user_data.label_counter

\* two nested loops on two conditions have been lowered: six labels were
\* allocated and each stands once in the IR
C36_SixLabelsEmitted ==
    /\ backend = TAC
    /\ vm.code = <<OP_PUSH, TYPE_I64, 1, OP_LOAD, OP_WHILE, 0,
                   OP_LOAD, OP_WHILE, 3, OP_ENDBLOCK, OP_ENDBLOCK, OP_HALT>>
    /\ vm.status = "halted"
    /\ vm.user_data.label_counter = 7
    /\ {vm.user_data.prog[i].imm : i \in LabelPlaces} = 1..6

\* the lowering is at a Set whose two immediates are there
AtTacSet == Lowering /\ AtOp(OP_SET) /\ HasImm2

\* the instruction is Const(dst, type, imm); Where(dst) of type Ptr;
\* Set(lhs, rhs)
IsConst(instr, dst, type, imm) ==
    instr.op = "TAC_CONST" /\ instr.dst = dst /\ instr.dst_type = type /\ instr.imm = imm
IsWherePtr(instr, dst) ==
    instr.op = "TAC_WHERE" /\ instr.dst = dst /\ instr.dst_type = TYPE_PTR
IsSet(instr, lhs, rhs) ==
    instr.op = "TAC_SET" /\ instr.lhs = lhs /\ instr.rhs = rhs

\* C37: Set(t, v) never pops the operand stack.  With a temp on the stack it
\* emits Const and then Set(lhs = the top temp, rhs = the Const's temp) and
\* leaves the stack as it is; with an empty stack it emits Const, then
\* Where(dst = ptr, dst_type = Ptr), then the Set on ptr, and leaves ptr
\* alone on the stack.
C37_SetKeepsOperandStack ==
    [][AtTacSet =>
        LET s == vm.user_data
            n == Len(s.prog)
            sp == Len(s.stack)
            t == s.next_temp
            after == vm'.user_data
        IN  /\ vm'.status = "running"
            /\ SubSeq(after.prog, 1, n) = s.prog
            /\ IsConst(after.prog[n + 1], t, Imm(1), Imm(2))
            /\ IF sp >= 1
               THEN /\ Len(after.prog) = n + 2
                    /\ IsSet(after.prog[n + 2], s.stack[sp], t)
                    /\ after.stack = s.stack
                    /\ after.next_temp = t + 1
               ELSE /\ Len(after.prog) = n + 3
                    /\ IsWherePtr(after.prog[n + 2], t + 1)
                    /\ IsSet(after.prog[n + 3], t + 1, t)
                    /\ after.stack = <<t + 1>>
                    /\ after.next_temp = t + 2]_vars

\* Set Ptr 1; Deref; Set I64 123 has been lowered: the first Set found the
\* stack empty and made t1 by a Where, the second found the Deref's t2 on
\* the stack and left it there
C37_BothSetsLowered ==
    /\ backend = TAC
    /\ vm.status = "running"
    /\ vm.ip = 7
    /\ SubSeq(vm.code, 1, 7) = <<OP_SET, TYPE_PTR, 1, OP_DEREF, OP_SET, TYPE_I64, 123>>
    /\ Len(vm.user_data.prog) = 6
    /\ IsConst(vm.user_data.prog[1], 0, TYPE_PTR, 1)
    /\ IsWherePtr(vm.user_data.prog[2], 1)
    /\ IsSet(vm.user_data.prog[3], 1, 0)
    /\ vm.user_data.prog[4].op = "TAC_DEREF"
    /\ IsConst(vm.user_data.prog[5], 3, TYPE_I64, 123)
    /\ IsSet(vm.user_data.prog[6], 2, 3)
    /\ vm.user_data.stack = <<2>>

(***************************************************************************)
(* The data stack and the tape of the interpreter (Spec).                  *)
(***************************************************************************)
\* the last step was the Store just before the opcode the loop is at
JustStored ==
    /\ g_prev.ip >= 0
    /\ vm.ip = g_prev.ip + 1
    /\ vm.code[g_prev.ip + 1] = OP_STORE

\* C38: a Store followed at once by a Load at the same tp restores the data
\* stack: sp, the top value and the top tag are those from before the Store,
\* tape[tp] and tape_types[tp] hold that value and that tag, and no other
\* cell of the tape has changed.
C38_StoreThenLoadRestoresTop ==
    [][/\ (AtInterp(OP_STORE) /\ vm.sp > 0 /\ InTape(vm.tp))
            => \A i \in 0..(TAPE_SIZE - 1) :
                  i # vm.tp => /\ vm'.tape[i] = vm.tape[i]
                               /\ vm'.tape_types[i] = vm.tape_types[i]
       /\ (AtInterp(OP_LOAD) /\ JustStored /\ InTape(vm.tp))
            => /\ vm'.status = "running"
               /\ vm'.sp = g_prev.sp
               /\ vm'.stack[vm'.sp - 1] = g_prev.top
               /\ vm'.types[vm'.sp - 1] = g_prev.tag
               /\ vm'.tp = vm.tp
               /\ vm'.tape = vm.tape
               /\ vm'.tape_types = vm.tape_types
               /\ vm'.tape[vm.tp] = g_prev.top
               /\ vm'.tape_types[vm.tp] = g_prev.tag]_vars

\* Move 1023; Push Bool 1; Store; Push I8 3; Push Ptr -1; Store; Load has
\* run: the cell 1023, tagged Bool before, holds -1 tagged Ptr, and -1
\* tagged Ptr is back on the stack above the 3
C38_PtrStoredAndLoaded ==
    /\ Interpreting
    /\ vm.code = <<OP_MOVE, TAPE_SIZE - 1, OP_PUSH, TYPE_BOOL, 1, OP_STORE,
                   OP_PUSH, TYPE_I8, 3, OP_PUSH, TYPE_PTR, -1, OP_STORE, OP_LOAD, OP_HALT>>
    /\ vm.status = "running"
    /\ vm.ip = 14
    /\ g_prev.ip = 13
    /\ vm.sp = 2
    /\ vm.stack[1] = -1 /\ vm.types[1] = TYPE_PTR
    /\ vm.stack[0] = 3 /\ vm.types[0] = TYPE_I8
    /\ vm.tape[TAPE_SIZE - 1] = -1 /\ vm.tape_types[TAPE_SIZE - 1] = TYPE_PTR

\* C39: Return keeps the type tag of the value it returns: the tag of the
\* caller's new top of stack is the tag that the callee's top of stack had
\* when Return popped it, however many values the callee left on its frame.
C39_ReturnKeepsTag ==
    [][(/\ AtInterp(OP_RETURN)
        /\ vm.call_sp > 0
        /\ vm.fp >= 0 /\ vm.sp > vm.fp /\ vm.sp <= STACK_SIZE
        /\ vm'.status = "running")
        => /\ vm'.sp = vm.fp + 1
           /\ vm'.stack[vm'.sp - 1] = vm.stack[vm.sp - 1]
           /\ vm'.types[vm'.sp - 1] = vm.types[vm.sp - 1]]_vars

(***************************************************************************)
(* Termination of a lowering run (Spec).                                   *)
(***************************************************************************)
\* no hook of the lowering moves ip: a dispatch step that leaves the run
\* running has moved ip past the opcode and its immediates, and the loop has
\* fetched no more opcodes than ip has passed words of the bytecode
LoweringMovesForward ==
    /\ [][(backend = TAC /\ vm.status = "running" /\ vm'.status = "running")
            => /\ ULess(vm.ip, vm.code_len)
               /\ vm'.ip = vm.ip + 1 + Arity(vm.code[vm.ip + 1])
               /\ vm'.code = vm.code]_vars
    /\ []((backend = TAC /\ vm.status # "freed")
                        => /\ g_prev.n <= vm.ip
                           /\ g_prev.n <= vm.code_len
                           /\ vm.status \in {"running", "halted", "ended"}
                                 => vm.ip <= vm.code_len)

\* what main does after a run that has returned: the dump, the file, the
\* backend's finalize and the release of the bytecode
AfterRun == {"dumped", "filed", "finalized", "freed"}

\* a run that has stopped stays stopped: only the second run and what main
\* does after a run that has returned follow it
LoweringStaysStopped ==
    [][(backend = TAC /\ vm.status \notin {"running", "halted", "ended"})
        => (vm' = vm \/ (vm.status \in AfterRun /\ vm'.status \in AfterRun))]_vars

\* the temps that the hook of op pops after its assert(s->sp >= ...)
TacOperands(op) ==
    IF op \in {OP_ADD, OP_SUB, OP_MUL, OP_DIV, OP_REM, OP_ORASSign, OP_ANDASSign,
               OP_BITAND, OP_BITOR, OP_BITXOR, OP_LSH, OP_LRSH, OP_ARSH, OP_INDEX}
    THEN 2
    ELSE IF op \in {OP_NOT, OP_GEZ, OP_DEREF, OP_REFER, OP_OFFSET, OP_STORE, OP_PRINT,
                    OP_IF, OP_WHILE}
    THEN 1
    ELSE 0

\* the lowering is at an opcode where run_vm or the hook stops the process:
\* the opcode is unknown, an immediate is missing, the operand stack is
\* shorter than the hook asserts, Else finds no open If on top of the block
\* stack, EndBlock finds no open block, or Move takes the virtual tape
\* pointer below 0 or to TAPE_SIZE or beyond
TacAbortCause ==
    LET op == vm.code[vm.ip + 1]
        s == vm.user_data
    IN  \/ ~(op >= OP_NOP /\ op <= OP_HALT)
        \/ ~(vm.ip + Arity(op) < vm.code_len)
        \/ Len(s.stack) < TacOperands(op)
        \/ /\ op = OP_ELSE
           /\ \/ s.block_stack = <<>>
              \/ s.block_stack[Len(s.block_stack)].type # OP_IF
        \/ op = OP_ENDBLOCK /\ s.block_stack = <<>>
        \/ /\ op = OP_MOVE
           /\ IF Imm(1) < 0 THEN s.tp + Imm(1) < 0 ELSE Imm(1) >= TAPE_SIZE - s.tp

\* the lowering is at an opcode whose hook writes outside an array without
\* a check: Function or Call with an index outside func_label[0..255], a
\* push of a temp on the full operand stack, or of a block on the full
\* block stack
TacUndefinedCause ==
    LET op == vm.code[vm.ip + 1]
        s == vm.user_data
    IN  \/ op \in {OP_FUNCTION, OP_CALL} /\ Imm(1) \notin 0..255
        \/ op \in {OP_PUSH, OP_LOAD, OP_WHERE, OP_CALL} /\ Len(s.stack) = STACK_SIZE
        \/ op \in {OP_FUNCTION, OP_IF, OP_WHILE} /\ Len(s.block_stack) = 256

\* a dispatch step of the lowering stops the run exactly for one of these
\* causes, or at Halt; the loop returns when ip has reached the end
LoweringStopsForCause ==
    [][(backend = TAC /\ vm.status = "running" /\ vm' # vm) =>
         IF ULess(vm.ip, vm.code_len)
         THEN /\ vm'.status \in {"running", "halted", "aborted", "undefined"}
              /\ vm'.status = "aborted" <=> TacAbortCause
              /\ vm'.status = "undefined" <=> (~TacAbortCause /\ TacUndefinedCause)
              /\ vm'.status = "halted" <=> vm.code[vm.ip + 1] = OP_HALT
         ELSE vm'.status = "ended"]_vars


====
